---- MODULE Spec2Model ----
(***************************************************************************)
(* Favorites persistence and media acquisition of gifpicker (src-tauri).   *)
(*                                                                         *)
(* Conventions                                                             *)
(*   Option<T>     <<>> is None, <<x>> is Some(x)                          *)
(*   String        a sequence of one-character strings when the code       *)
(*                 inspects it (file names, enum names, tag lists, JSON),  *)
(*                 an opaque TLA+ string otherwise (URLs, provider ids)    *)
(*   Path          <<root, subdir, file name>>; a path string              *)
(*                 (to_string_lossy / PathBuf::from) is its component list *)
(*   DateTime<Utc> a natural number of clock ticks                         *)
(***************************************************************************)
EXTENDS Integers, Sequences, FiniteSets, TLC

VARIABLES
    rows,       \* table favorites: id -> row (db/favorites.rs FavoriteRow)
    files,      \* file system: existing path -> size in bytes
    dirs,       \* whether the media directory tree exists
    clock,      \* Utc::now()
    ret,        \* the last command invocation and what it returned
    held,       \* the Favorite record the GUI holds (from get_favorite_by_id)
    issued,     \* id -> the Favorite a creating command returned for that id
    incCalls,   \* id -> number of successful increment_use_count calls on it
    pc,         \* storage-level increment_use_count tasks: position
    nowOf,      \* storage-level increment_use_count tasks: bound timestamp
    prior,      \* use_count of the contended row before the tasks started
    migLog,     \* table _migrations: set of recorded versions
    migTable,   \* whether table _migrations exists
    schema,     \* versions whose schema statement has taken effect
    mpc,        \* run_migrations: position, "idle" or <<step, index>>
    execCount,  \* version -> number of executions of its schema statement
    execOrder,  \* versions in the order their statements were executed
    runs,       \* number of run_migrations calls started
    migRet,     \* what the last finished run_migrations call returned
    cleanRun,   \* the running call started on a fully migrated database
    httpGets,   \* number of HTTP GET requests issued by the downloader
    dlSeq,      \* number of download calls made
    dlRet,      \* the last download call and what it returned
    okSince,    \* destinations downloaded successfully and not deleted since
    asked,      \* the last store call: which one, its arguments, its outcome
    hits,       \* the favorites the last store call returned, in order
    settings,   \* table settings: key -> value text
    setRet,     \* the last settings call and what it returned
    targetOs,   \* the target OS of the build: "macos" or "other"
    registered, \* the global shortcuts registered with the plugin
    hkRet,      \* the last hotkey command and what it returned
    owner,      \* the AppState mutex: the invocation holding it, 0 when free
    cpc,        \* command invocations: "idle", "waiting" or "running"
    cmd,        \* command invocations: the command invoked
    left,       \* command invocations: store and downloader operations to go
    touched,    \* command invocations: has operated and not yet returned
    parseIn,    \* the string handed to from_str
    parseRet    \* the last from_str call and what it returned

vars == <<rows, files, dirs, clock, ret, held, issued, incCalls, pc, nowOf, prior,
          migLog, migTable, schema, mpc, execCount, execOrder, runs, migRet,
          cleanRun, httpGets, dlSeq, dlRet, okSince, asked, hits, settings,
          setRet, targetOs, registered, hkRet, owner, cpc, cmd, left, touched,
          parseIn, parseRet>>

favVars == <<rows, files, dirs, clock, ret, held, issued, incCalls>>
concVars == <<pc, nowOf, prior>>
migVars == <<migLog, migTable, schema, mpc, execCount, execOrder, runs,
             migRet, cleanRun>>
dlVars == <<httpGets, dlSeq, dlRet, okSince>>
qryVars == <<asked, hits>>
setVars == <<settings, setRet, targetOs>>
hkVars == <<registered, hkRet>>
lockVars == <<owner, cpc, cmd, left, touched>>
parseVars == <<parseIn, parseRet>>

----------------------------------------------------------------------------
(* Bounds *)

FlowRows == 2
DelRows == 2
StoreRows == 1
UseRows == 1
MaxClock == 1
MaxIncCalls == 2
NumTasks == 3
MaxRuns == 3
MaxDlCalls == 3
MaxPrior == 1
NumInvocations == 2
StoreUses == 1
SearchRows == 3
StoreIds == 2

----------------------------------------------------------------------------
(* Option and text helpers *)

None == <<>>
Some(x) == <<x>>
IsSome(o) == Len(o) = 1
Unwrap(o) == o[1]

Max(S) == CHOOSE m \in S : \A x \in S : x <= m

UpperChars == <<"A", "B", "C", "D", "E", "F", "G", "H", "I", "J", "K", "L", "M",
                "N", "O", "P", "Q", "R", "S", "T", "U", "V", "W", "X", "Y", "Z">>
LowerChars == <<"a", "b", "c", "d", "e", "f", "g", "h", "i", "j", "k", "l", "m",
                "n", "o", "p", "q", "r", "s", "t", "u", "v", "w", "x", "y", "z">>

LowerChar(c) ==
    IF \E i \in DOMAIN UpperChars : UpperChars[i] = c
    THEN LowerChars[CHOOSE i \in DOMAIN UpperChars : UpperChars[i] = c]
    ELSE c

ToLowercase(s) == [i \in DOMAIN s |-> LowerChar(s[i])]

----------------------------------------------------------------------------
(* Entity model: models/favorite.rs *)

MediaTypes == {"Gif", "Image", "Video"}
Sources == {"Giphy", "Tenor", "Local", "Upload"}

MediaTypeToString(m) ==
    CASE m = "Gif" -> <<"g", "i", "f">>
      [] m = "Image" -> <<"i", "m", "a", "g", "e">>
      [] m = "Video" -> <<"v", "i", "d", "e", "o">>

MediaTypeFromStrExact(s) ==
    CASE s = <<"g", "i", "f">> -> Some("Gif")
      [] s = <<"i", "m", "a", "g", "e">> -> Some("Image")
      [] s = <<"v", "i", "d", "e", "o">> -> Some("Video")
      [] OTHER -> None

\* Result<MediaType, String> as an Option: <<>> is the Err branch.
MediaTypeFromStr(s) ==
    LET l == ToLowercase(s) IN
    CASE l = <<"g", "i", "f">> -> Some("Gif")
      [] l = <<"i", "m", "a", "g", "e">> -> Some("Image")
      [] l = <<"v", "i", "d", "e", "o">> -> Some("Video")
      [] OTHER -> None

\* Source::Klipy is used by the commands (commands/favorites.rs:223) but is no
\* variant of the enum in models/favorite.rs; its text form follows the
\* canonical-lowercase rule of the other variants.
KlipyText == <<"k", "l", "i", "p", "y">>

SourceToString(s) ==
    CASE s = "Giphy" -> <<"g", "i", "p", "h", "y">>
      [] s = "Tenor" -> <<"t", "e", "n", "o", "r">>
      [] s = "Local" -> <<"l", "o", "c", "a", "l">>
      [] s = "Upload" -> <<"u", "p", "l", "o", "a", "d">>
      [] s = "Klipy" -> KlipyText

SourceFromStr(s) ==
    LET l == ToLowercase(s) IN
    CASE l = <<"g", "i", "p", "h", "y">> -> Some("Giphy")
      [] l = <<"t", "e", "n", "o", "r">> -> Some("Tenor")
      [] l = <<"l", "o", "c", "a", "l">> -> Some("Local")
      [] l = <<"u", "p", "l", "o", "a", "d">> -> Some("Upload")
      [] l = KlipyText -> Some("Klipy")
      [] OTHER -> None

\* Favorite::new: identity absent, counters zeroed, optional fields empty.
\* mp4_filepath is the field the commands assign (commands/favorites.rs:225).
FavoriteNew(filename, filepath, media_type, now) ==
    [id |-> None, filename |-> filename, filepath |-> filepath,
     mp4_filepath |-> None, gif_url |-> None, media_type |-> media_type,
     source |-> None, source_id |-> None, source_url |-> None,
     tags |-> <<>>, custom_tags |-> <<>>, description |-> None,
     width |-> None, height |-> None, file_size |-> None,
     created_at |-> now, last_used |-> None, use_count |-> 0]

WithSource(f, source, source_id, source_url) ==
    [f EXCEPT !.source = Some(source), !.source_id = source_id,
              !.source_url = source_url]

WithGifUrl(f, gif_url) == [f EXCEPT !.gif_url = Some(gif_url)]

WithDimensions(f, width, height) ==
    [f EXCEPT !.width = Some(width), !.height = Some(height)]

WithTags(f, tags) == [f EXCEPT !.tags = tags]

----------------------------------------------------------------------------
(* Storage encodings: db/favorites.rs *)

\* serde_json string escaping of the two characters it must escape in the
\* alphabet used here.
JsonEscape(t) ==
    LET RECURSIVE Esc(_)
        Esc(i) ==
            IF i > Len(t) THEN <<>>
            ELSE (IF t[i] \in {"\"", "\\"} THEN <<"\\", t[i]>> ELSE <<t[i]>>)
                 \o Esc(i + 1)
    IN Esc(1)

\* serde_json::to_string(&Vec<String>): ["a","b"]
ToJson(tags) ==
    LET RECURSIVE Elems(_)
        Elems(i) ==
            IF i > Len(tags) THEN <<>>
            ELSE (IF i > 1 THEN <<",">> ELSE <<>>)
                 \o <<"\"">> \o JsonEscape(tags[i]) \o <<"\"">>
                 \o Elems(i + 1)
    IN <<"[">> \o Elems(1) \o <<"]">>

\* A JSON string literal starting at s[i] (the opening quote):
\* [ok, val, next], next the index after the closing quote.
JsonString(s, i) ==
    LET RECURSIVE Scan(_, _)
        Scan(j, acc) ==
            IF j > Len(s) THEN [ok |-> FALSE, val |-> <<>>, next |-> j]
            ELSE IF s[j] = "\"" THEN [ok |-> TRUE, val |-> acc, next |-> j + 1]
            ELSE IF s[j] = "\\"
                 THEN IF j + 1 <= Len(s) /\ s[j + 1] \in {"\"", "\\"}
                      THEN Scan(j + 2, Append(acc, s[j + 1]))
                      ELSE [ok |-> FALSE, val |-> <<>>, next |-> j]
            ELSE Scan(j + 1, Append(acc, s[j]))
    IN IF i <= Len(s) /\ s[i] = "\"" THEN Scan(i + 1, <<>>)
       ELSE [ok |-> FALSE, val |-> <<>>, next |-> i]

\* serde_json::from_str::<Vec<String>>(..).unwrap_or_default()
FromJsonOrDefault(s) ==
    LET RECURSIVE Elems(_, _)
        Elems(i, acc) ==
            LET e == JsonString(s, i) IN
            IF ~e.ok \/ e.next > Len(s) THEN <<>>
            ELSE IF s[e.next] = "]"
                 THEN (IF e.next = Len(s) THEN Append(acc, e.val) ELSE <<>>)
            ELSE IF s[e.next] = ","
                 THEN Elems(e.next + 1, Append(acc, e.val))
            ELSE <<>>
    IN IF Len(s) < 2 \/ s[1] # "[" THEN <<>>
       ELSE IF s = <<"[", "]">> THEN <<>>
       ELSE Elems(2, <<>>)

\* DateTime::to_rfc3339 keeps the full precision of the instant.
ToRfc3339(t) == <<"rfc3339", t>>

\* DateTime::parse_from_rfc3339(..).ok()
ParseRfc3339(s) ==
    IF Len(s) = 2 /\ s[1] = "rfc3339" THEN Some(s[2]) ELSE None

\* The column values create binds (INSERT INTO favorites ...): the statement
\* names no mp4_filepath column.
RowOfCreate(f, id) ==
    [id |-> id, filename |-> f.filename, filepath |-> f.filepath,
     gif_url |-> f.gif_url, media_type |-> MediaTypeToString(f.media_type),
     source |-> IF IsSome(f.source) THEN Some(SourceToString(Unwrap(f.source)))
                ELSE None,
     source_id |-> f.source_id, source_url |-> f.source_url,
     tags |-> ToJson(f.tags), custom_tags |-> ToJson(f.custom_tags),
     description |-> f.description, width |-> f.width, height |-> f.height,
     file_size |-> f.file_size, created_at |-> ToRfc3339(f.created_at),
     last_used |-> IF IsSome(f.last_used) THEN Some(ToRfc3339(Unwrap(f.last_used)))
                   ELSE None,
     use_count |-> f.use_count]

\* impl From<FavoriteRow> for Favorite. FavoriteRow has no mp4_filepath, so
\* the record read back carries none. created_at falls back to Utc::now().
FavoriteFromRow(row, now) ==
    LET mt == MediaTypeFromStr(row.media_type)
        ca == ParseRfc3339(row.created_at)
    IN [id |-> Some(row.id), filename |-> row.filename,
        filepath |-> row.filepath, mp4_filepath |-> None,
        gif_url |-> row.gif_url,
        media_type |-> IF IsSome(mt) THEN Unwrap(mt) ELSE "Gif",
        source |-> IF IsSome(row.source) THEN SourceFromStr(Unwrap(row.source))
                   ELSE None,
        source_id |-> row.source_id, source_url |-> row.source_url,
        tags |-> FromJsonOrDefault(row.tags),
        custom_tags |-> FromJsonOrDefault(row.custom_tags),
        description |-> row.description, width |-> row.width,
        height |-> row.height, file_size |-> row.file_size,
        created_at |-> IF IsSome(ca) THEN Unwrap(ca) ELSE now,
        last_used |-> IF IsSome(row.last_used)
                      THEN ParseRfc3339(Unwrap(row.last_used)) ELSE None,
        use_count |-> row.use_count]

----------------------------------------------------------------------------
(* Relational store: db/favorites.rs. A table is a function id -> row. *)

\* The id the store assigns to an inserted row (column id of table
\* favorites): the next rowid.
NewRowid(table) == Max(DOMAIN table \cup {0}) + 1

\* FavoritesDb::create: [table, id]
CreateAtOne(table, f) ==
    [table |-> [i \in DOMAIN table \cup {1} |->
                    IF i = 1 THEN RowOfCreate(f, 1) ELSE table[i]],
     id |-> 1]

Create(table, f) ==
    LET id == NewRowid(table) IN
    [table |-> [i \in DOMAIN table \cup {id} |->
                    IF i = id THEN RowOfCreate(f, id) ELSE table[i]],
     id |-> id]

\* FavoritesDb::get_by_id: Option<Favorite>
GetById(table, id, now) ==
    IF id \in DOMAIN table THEN Some(FavoriteFromRow(table[id], now)) ELSE None

\* FavoritesDb::update, for a favorite with a present id: every column but id
\* and created_at is overwritten; an id matching no row changes nothing.
Update(table, f) ==
    LET id == Unwrap(f.id)
        new == RowOfCreate(f, id)
    IN IF id \in DOMAIN table
       THEN [table EXCEPT ![id] = [new EXCEPT !.created_at = table[id].created_at]]
       ELSE table

\* FavoritesDb::delete
Delete(table, id) == [i \in DOMAIN table \ {id} |-> table[i]]

UpdateResultLenient(table, f, db_ok) ==
    IF ~IsSome(f.id) THEN [table |-> table, ok |-> TRUE, err |-> "none"]
    ELSE IF ~db_ok THEN [table |-> table, ok |-> FALSE, err |-> "database"]
    ELSE [table |-> Update(table, f), ok |-> TRUE, err |-> "none"]

\* FavoritesDb::update as a whole: favorite.id.context(..)? comes before the
\* statement, and a failing execute leaves the table as it was.
UpdateResult(table, f, db_ok) ==
    IF ~IsSome(f.id) THEN [table |-> table, ok |-> FALSE, err |-> "missing_id"]
    ELSE IF ~db_ok THEN [table |-> table, ok |-> FALSE, err |-> "database"]
    ELSE [table |-> Update(table, f), ok |-> TRUE, err |-> "none"]

DeleteResultStrict(table, id, db_ok) ==
    IF ~db_ok THEN [table |-> table, ok |-> FALSE, err |-> "database"]
    ELSE IF id \notin DOMAIN table
         THEN [table |-> table, ok |-> FALSE, err |-> "not_found"]
    ELSE [table |-> Delete(table, id), ok |-> TRUE, err |-> "none"]

\* FavoritesDb::delete as a whole: the number of rows affected is not looked
\* at, only a failing execute is an error.
DeleteResult(table, id, db_ok) ==
    IF ~db_ok THEN [table |-> table, ok |-> FALSE, err |-> "database"]
    ELSE [table |-> Delete(table, id), ok |-> TRUE, err |-> "none"]

\* The LIKE operator of the store: % matches any run of characters, _ any
\* one character, every other character itself without regard to ASCII
\* case; no escape character is declared.
RECURSIVE LikeMatch(_, _)
LikeMatch(p, t) ==
    IF p = <<>> THEN t = <<>>
    ELSE IF Head(p) = "%"
         THEN LikeMatch(Tail(p), t) \/ (t # <<>> /\ LikeMatch(p, Tail(t)))
    ELSE /\ t # <<>>
         /\ (Head(p) = "_" \/ LowerChar(Head(p)) = LowerChar(Head(t)))
         /\ LikeMatch(Tail(p), Tail(t))

\* format!("%{}%", query.to_lowercase())
SearchTerm(query) == <<"%">> \o ToLowercase(query) \o <<"%">>

\* LOWER(column) LIKE ? on a nullable text column: NULL never matches.
LowerLike(column, term) ==
    IsSome(column) /\ LikeMatch(term, ToLowercase(Unwrap(column)))

\* The WHERE clause of search: the tags columns hold their JSON text.
SearchMatches(row, term) ==
    \/ LowerLike(Some(row.filename), term)
    \/ LowerLike(Some(row.tags), term)
    \/ LowerLike(Some(row.custom_tags), term)
    \/ LowerLike(row.description, term)

\* Text order of two created_at values as written by to_rfc3339 on
\* DateTime<Utc>: the order of the instants.
CreatedAtGeq(a, b) == a.created_at[2] >= b.created_at[2]

\* ORDER BY created_at DESC: row a may stand before row b.
GetAllBefore(a, b) == CreatedAtGeq(a, b)

SearchBeforeByCreated(a, b) == CreatedAtGeq(a, b)

\* ORDER BY use_count DESC, created_at DESC: row a may stand before row b.
SearchBefore(a, b) ==
    \/ a.use_count > b.use_count
    \/ a.use_count = b.use_count /\ CreatedAtGeq(a, b)

\* The sequences of the ids in S without repetition.
Orderings(S) ==
    {o \in [1 .. Cardinality(S) -> S] :
        \A i, j \in 1 .. Cardinality(S) : i # j => o[i] # o[j]}

\* rows.into_iter().map(|r| r.into()).collect()
CollectFavorites(table, order, now) ==
    [i \in DOMAIN order |-> FavoriteFromRow(table[order[i]], now)]

\* FavoritesDb::get_all: the results the statement may return; rows the
\* ORDER BY does not tell apart come in any order.
GetAll(table, now) ==
    {CollectFavorites(table, o, now) :
        o \in {o \in Orderings(DOMAIN table) :
                 \A i, j \in DOMAIN o :
                     i < j => GetAllBefore(table[o[i]], table[o[j]])}}

\* FavoritesDb::search: the results the statement may return.
Search(table, query, now) ==
    {CollectFavorites(table, o, now) :
        o \in {o \in Orderings({id \in DOMAIN table :
                                  SearchMatches(table[id], SearchTerm(query))}) :
                 \A i, j \in DOMAIN o :
                     i < j => SearchBefore(table[o[i]], table[o[j]])}}

\* The UPDATE statement of increment_use_count applied to one row.
IncrementRowLost(row, now) == [row EXCEPT !.last_used = Some(ToRfc3339(now))]

IncrementRow(row, now) ==
    [row EXCEPT !.use_count = @ + 1, !.last_used = Some(ToRfc3339(now))]

\* Every invocation writes the count read before any of them ran, plus one.
IncrementUseCountStale(table, id, now) ==
    IF id \in DOMAIN table
    THEN [table EXCEPT ![id] = [@ EXCEPT !.use_count = prior + 1,
                                         !.last_used = Some(ToRfc3339(now))]]
    ELSE table

\* FavoritesDb::increment_use_count, the statement with `now` bound.
IncrementUseCountSql(table, id, now) ==
    IF id \in DOMAIN table
    THEN [table EXCEPT ![id] = IncrementRow(table[id], now)]
    ELSE table

----------------------------------------------------------------------------
(* Settings: models/settings.rs and db/settings.rs. The table settings is  *)
(* a function from the key, an opaque string, to the value text.           *)

Themes == {"Light", "Dark", "System"}
ClipboardModes == {"File", "Url"}

\* #[serde(rename_all = "lowercase")] on Theme and ClipboardMode
ThemeToString(t) ==
    CASE t = "Light" -> <<"l", "i", "g", "h", "t">>
      [] t = "Dark" -> <<"d", "a", "r", "k">>
      [] t = "System" -> <<"s", "y", "s", "t", "e", "m">>

ClipboardModeToString(m) ==
    CASE m = "File" -> <<"f", "i", "l", "e">>
      [] m = "Url" -> <<"u", "r", "l">>

\* impl Default for Settings; the hotkey depends on the target OS.
SettingsDefault(os) ==
    [giphy_api_key |-> None,
     hotkey |-> IF os = "macos"
                THEN <<"O", "p", "t", "i", "o", "n", "+", "C", "m", "d", "+", "G">>
                ELSE <<"C", "t", "r", "l", "+", "S", "h", "i", "f", "t", "+", "G">>,
     window_width |-> 800, window_height |-> 600, max_item_width |-> 400,
     close_after_selection |-> TRUE, launch_at_startup |-> FALSE,
     theme |-> "System", clipboard_mode |-> "File"]

DigitChars == <<"0", "1", "2", "3", "4", "5", "6", "7", "8", "9">>

IsDigit(c) == \E i \in DOMAIN DigitChars : DigitChars[i] = c
DigitValue(c) == (CHOOSE i \in DOMAIN DigitChars : DigitChars[i] = c) - 1

\* The decimal digits of a natural number.
RECURSIVE Digits(_)
Digits(n) ==
    IF n < 10 THEN <<DigitChars[n + 1]>>
    ELSE Append(Digits(n \div 10), DigitChars[(n % 10) + 1])

\* The value of a run of at most nine digits, 0 for the empty run.
RECURSIVE DigitsValue(_)
DigitsValue(d) ==
    IF d = <<>> THEN 0
    ELSE DigitsValue(SubSeq(d, 1, Len(d) - 1)) * 10 + DigitValue(d[Len(d)])

\* JSON text without the white space around it.
RECURSIVE TrimWs(_)
TrimWs(v) ==
    IF v # <<>> /\ Head(v) = " " THEN TrimWs(Tail(v))
    ELSE IF v # <<>> /\ v[Len(v)] = " " THEN TrimWs(SubSeq(v, 1, Len(v) - 1))
    ELSE v

\* serde_json::to_string(&String)
StringToJson(x) == <<"\"">> \o JsonEscape(x) \o <<"\"">>

\* serde_json::from_str::<String>(..).ok()
StringFromJson(v) ==
    IF JsonString(TrimWs(v), 1).ok /\ JsonString(TrimWs(v), 1).next = Len(TrimWs(v)) + 1
    THEN Some(JsonString(TrimWs(v), 1).val)
    ELSE None

\* serde_json::to_string(&Option<String>)
OptionStringToJson(o) ==
    IF IsSome(o) THEN StringToJson(Unwrap(o)) ELSE <<"n", "u", "l", "l">>

\* serde_json::to_string(&i32)
I32ToJson(n) == IF n < 0 THEN <<"-">> \o Digits(0 - n) ELSE Digits(n)

\* Whether the digits d are a JSON integer literal (no leading zero) whose
\* magnitude is at most 214748364 * 10 + last, compared without leaving 32
\* bits.
IsIntLiteral(d, last) ==
    /\ d # <<>>
    /\ \A i \in DOMAIN d : IsDigit(d[i])
    /\ Len(d) = 1 \/ d[1] # "0"
    /\ \/ Len(d) <= 9
       \/ /\ Len(d) = 10
          /\ \/ DigitsValue(SubSeq(d, 1, 9)) < 214748364
             \/ /\ DigitsValue(SubSeq(d, 1, 9)) = 214748364
                /\ DigitValue(d[10]) <= last

\* serde_json::from_str::<i32>(..).ok(): an integer literal within
\* -2147483648 .. 2147483647; "-0" is read as a float and is no i32.
I32FromJson(v) ==
    IF TrimWs(v) # <<>> /\ Head(TrimWs(v)) = "-"
    THEN (IF IsIntLiteral(Tail(TrimWs(v)), 8) /\ Tail(TrimWs(v)) # <<"0">>
          THEN Some((0 - DigitsValue(SubSeq(TrimWs(v), 2, Len(TrimWs(v)) - 1)) * 10)
                    - DigitValue(TrimWs(v)[Len(TrimWs(v))]))
          ELSE None)
    ELSE IF IsIntLiteral(TrimWs(v), 7)
         THEN Some(DigitsValue(SubSeq(TrimWs(v), 1, Len(TrimWs(v)) - 1)) * 10
                   + DigitValue(TrimWs(v)[Len(TrimWs(v))]))
    ELSE None

\* serde_json::to_string(&bool)
BoolToJson(b) ==
    IF b THEN <<"t", "r", "u", "e">> ELSE <<"f", "a", "l", "s", "e">>

\* serde_json::from_str::<bool>(..).ok()
BoolFromJson(v) ==
    IF TrimWs(v) = <<"t", "r", "u", "e">> THEN Some(TRUE)
    ELSE IF TrimWs(v) = <<"f", "a", "l", "s", "e">> THEN Some(FALSE)
    ELSE None

\* serde_json::from_str::<Theme>(..).ok(): the lowercase name as a string
ThemeFromJson(v) ==
    IF IsSome(StringFromJson(v))
       /\ \E t \in Themes : ThemeToString(t) = Unwrap(StringFromJson(v))
    THEN Some(CHOOSE t \in Themes : ThemeToString(t) = Unwrap(StringFromJson(v)))
    ELSE None

\* serde_json::from_str::<ClipboardMode>(..).ok()
ClipboardModeFromJson(v) ==
    IF IsSome(StringFromJson(v))
       /\ \E m \in ClipboardModes : ClipboardModeToString(m) = Unwrap(StringFromJson(v))
    THEN Some(CHOOSE m \in ClipboardModes :
                  ClipboardModeToString(m) = Unwrap(StringFromJson(v)))
    ELSE None

UnwrapOrNever(decoded, current) == current

\* Result::unwrap_or on the decoded value.
UnwrapOr(decoded, current) == IF IsSome(decoded) THEN Unwrap(decoded) ELSE current

\* One arm of the match of get on the key of a row.
ApplyRow(st, key, value) ==
    CASE key = "giphy_api_key" -> [st EXCEPT !.giphy_api_key = StringFromJson(value)]
      [] key = "hotkey" ->
            [st EXCEPT !.hotkey = UnwrapOr(StringFromJson(value), st.hotkey)]
      [] key = "window_width" ->
            [st EXCEPT !.window_width = UnwrapOr(I32FromJson(value), st.window_width)]
      [] key = "window_height" ->
            [st EXCEPT !.window_height = UnwrapOr(I32FromJson(value), st.window_height)]
      [] key = "max_item_width" ->
            [st EXCEPT !.max_item_width = UnwrapOr(I32FromJson(value), st.max_item_width)]
      [] key = "close_after_selection" ->
            [st EXCEPT !.close_after_selection =
                           UnwrapOr(BoolFromJson(value), st.close_after_selection)]
      [] key = "launch_at_startup" ->
            [st EXCEPT !.launch_at_startup =
                           UnwrapOr(BoolFromJson(value), st.launch_at_startup)]
      [] key = "theme" -> [st EXCEPT !.theme = UnwrapOr(ThemeFromJson(value), st.theme)]
      [] key = "clipboard_mode" ->
            [st EXCEPT !.clipboard_mode =
                           UnwrapOr(ClipboardModeFromJson(value), st.clipboard_mode)]
      [] OTHER -> st

\* for (key, value) in rows { match ... }: the rows in the order fetched.
RECURSIVE ApplyRows(_, _, _)
ApplyRows(st, table, keys) ==
    IF keys = {} THEN st
    ELSE ApplyRows(ApplyRow(st, CHOOSE k \in keys : TRUE,
                            table[CHOOSE k \in keys : TRUE]),
                   table, keys \ {CHOOSE k \in keys : TRUE})

\* SettingsDb::get
SettingsGet(table, os) ==
    IF DOMAIN table = {} THEN SettingsDefault(os)
    ELSE ApplyRows(SettingsDefault(os), table, DOMAIN table)

\* let pairs = vec![...] of save
SavePairs(st) ==
    <<<<"giphy_api_key", OptionStringToJson(st.giphy_api_key)>>,
      <<"hotkey", StringToJson(st.hotkey)>>,
      <<"window_width", I32ToJson(st.window_width)>>,
      <<"window_height", I32ToJson(st.window_height)>>,
      <<"max_item_width", I32ToJson(st.max_item_width)>>,
      <<"close_after_selection", BoolToJson(st.close_after_selection)>>,
      <<"launch_at_startup", BoolToJson(st.launch_at_startup)>>,
      <<"theme", StringToJson(ThemeToString(st.theme))>>,
      <<"clipboard_mode", StringToJson(ClipboardModeToString(st.clipboard_mode))>>>>

\* The table holding the first n pairs and nothing else.
InsertedPairs(pairs, n) ==
    [k \in {pairs[i][1] : i \in 1 .. n} |->
        pairs[CHOOSE i \in 1 .. n : pairs[i][1] = k][2]]

UpsertClearing(table, key, value) == [k \in {key} |-> value]

\* INSERT ... ON CONFLICT(key) DO UPDATE SET value = excluded.value
Upsert(table, key, value) ==
    [k \in DOMAIN table \cup {key} |-> IF k = key THEN value ELSE table[k]]

RECURSIVE UpsertPairs(_, _, _)
UpsertPairs(table, pairs, n) ==
    IF n = 0 THEN table
    ELSE Upsert(UpsertPairs(table, pairs, n - 1), pairs[n][1], pairs[n][2])

SettingsSaveKeeping(table, st, fault) ==
    IF fault = 1 THEN [table |-> table, ok |-> FALSE]
    ELSE IF fault = 0
         THEN [table |-> UpsertPairs(table, SavePairs(st), Len(SavePairs(st))),
               ok |-> TRUE]
    ELSE [table |-> UpsertPairs(table, SavePairs(st), fault - 2), ok |-> FALSE]

\* SettingsDb::save: DELETE FROM settings, then one INSERT per pair, each
\* its own statement. fault is 0 when every statement succeeds, 1 when the
\* DELETE fails, k + 1 when the k-th INSERT fails.
SettingsSave(table, st, fault) ==
    IF fault = 1 THEN [table |-> table, ok |-> FALSE]
    ELSE IF fault = 0
         THEN [table |-> InsertedPairs(SavePairs(st), Len(SavePairs(st))),
               ok |-> TRUE]
    ELSE [table |-> InsertedPairs(SavePairs(st), fault - 2), ok |-> FALSE]

\* SettingsDb::update_key
SettingsUpdateKey(table, key, value, db_ok) ==
    IF db_ok THEN [table |-> Upsert(table, key, value), ok |-> TRUE]
    ELSE [table |-> table, ok |-> FALSE]

----------------------------------------------------------------------------
(* Media acquisition: services/downloader.rs. A file system is a function  *)
(* from the existing paths to their sizes.                                 *)

MediaRoot == "media"

\* The subdirectory of a media type name (match media_type { ... }).
Subdir(media_type) ==
    CASE media_type = "gif" -> "gifs"
      [] media_type = "image" -> "images"
      [] media_type = "video" -> "videos"
      [] OTHER -> "gifs"

\* Path::file_name as Option: the last component, absent when empty.
FileName(path) == IF path[3] = <<>> THEN None ELSE Some(path[3])

\* Index of the last '.' of a name, 0 when there is none.
LastDot(name) ==
    IF \E i \in DOMAIN name : name[i] = "."
    THEN Max({i \in DOMAIN name : name[i] = "."})
    ELSE 0

\* Path::extension(..).and_then(to_str).unwrap_or(""): the part after the
\* last '.', empty when there is no '.' or the only one leads the name.
Extension(name) ==
    IF LastDot(name) <= 1 THEN <<>>
    ELSE SubSeq(name, LastDot(name) + 1, Len(name))

\* Media type name of a lower-cased extension (import_local_file).
MediaTypeOfExtension(ext) ==
    CASE ext = <<"g", "i", "f">> -> "gif"
      [] ext \in {<<"p", "n", "g">>, <<"j", "p", "g">>, <<"j", "p", "e", "g">>,
                  <<"w", "e", "b", "p">>} -> "image"
      [] ext \in {<<"m", "p", "4">>, <<"w", "e", "b", "m">>, <<"m", "o", "v">>}
            -> "video"
      [] OTHER -> "gif"

\* What the environment does to one download call: out names the first step
\* that fails ("ok" when none does), size the length of the response body.
DownloadOutcomes ==
    {"ok", "mkdir_fail", "send_fail", "status_fail", "body_fail",
     "create_fail", "write_fail"}

WithFile(fs, path, size) ==
    [q \in DOMAIN fs \cup {path} |-> IF q = path THEN size ELSE fs[q]]

WithoutFile(fs, path) == [q \in DOMAIN fs \ {path} |-> fs[q]]

\* Downloader::ensure_directories: create_dir_all succeeds on a tree that
\* exists; creating it can fail. TRUE when the tree exists afterwards.
EnsureDirectories(tree, mkdir_ok) == tree \/ mkdir_ok

\* Downloader::download without the existence check.
DownloadAlwaysFetch(fs, tree, url, filename, media_type, env) ==
    LET file_path == <<MediaRoot, Subdir(media_type), filename>>
        made == EnsureDirectories(tree, env.out # "mkdir_fail")
    IN IF ~made
       THEN [files |-> fs, tree |-> made, result |-> None, gets |-> 0]
       ELSE IF env.out \in {"send_fail", "status_fail", "body_fail", "create_fail"}
       THEN [files |-> fs, tree |-> made, result |-> None, gets |-> 1]
       ELSE IF env.out = "write_fail"
       THEN [files |-> WithFile(fs, file_path, 0), tree |-> made,
             result |-> None, gets |-> 1]
       ELSE [files |-> WithFile(fs, file_path, env.size), tree |-> made,
             result |-> Some(file_path), gets |-> 1]

\* Downloader::download creating the destination before it looks at the
\* response: a failed request leaves an empty file.
DownloadCreateFirst(fs, tree, url, filename, media_type, env) ==
    LET file_path == <<MediaRoot, Subdir(media_type), filename>>
        made == EnsureDirectories(tree, env.out # "mkdir_fail")
    IN IF ~made
       THEN [files |-> fs, tree |-> made, result |-> None, gets |-> 0]
       ELSE IF file_path \in DOMAIN fs
       THEN [files |-> fs, tree |-> made, result |-> Some(file_path), gets |-> 0]
       ELSE IF env.out = "ok"
       THEN [files |-> WithFile(fs, file_path, env.size), tree |-> made,
             result |-> Some(file_path), gets |-> 1]
       ELSE [files |-> WithFile(fs, file_path, 0), tree |-> made,
             result |-> None, gets |-> 1]

\* Downloader::download removing what a failed write left behind.
DownloadRemovingPartial(fs, tree, url, filename, media_type, env) ==
    LET file_path == <<MediaRoot, Subdir(media_type), filename>>
        made == EnsureDirectories(tree, env.out # "mkdir_fail")
    IN IF ~made
       THEN [files |-> fs, tree |-> made, result |-> None, gets |-> 0]
       ELSE IF file_path \in DOMAIN fs
       THEN [files |-> fs, tree |-> made, result |-> Some(file_path), gets |-> 0]
       ELSE IF env.out = "ok"
       THEN [files |-> WithFile(fs, file_path, env.size), tree |-> made,
             result |-> Some(file_path), gets |-> 1]
       ELSE [files |-> fs, tree |-> made, result |-> None, gets |-> 1]

\* Downloader::download: [files, tree, result (Option<PathBuf>, <<>> the Err
\* branch), gets (HTTP GET requests issued)]. A failed write leaves the
\* created file behind, shorter than the body.
Download(fs, tree, url, filename, media_type, env) ==
    LET file_path == <<MediaRoot, Subdir(media_type), filename>>
        made == EnsureDirectories(tree, env.out # "mkdir_fail")
    IN IF ~made
       THEN [files |-> fs, tree |-> made, result |-> None, gets |-> 0]
       ELSE IF file_path \in DOMAIN fs
       THEN [files |-> fs, tree |-> made, result |-> Some(file_path), gets |-> 0]
       ELSE IF env.out \in {"send_fail", "status_fail", "body_fail", "create_fail"}
       THEN [files |-> fs, tree |-> made, result |-> None, gets |-> 1]
       ELSE IF env.out = "write_fail"
       THEN [files |-> WithFile(fs, file_path, 0), tree |-> made,
             result |-> None, gets |-> 1]
       ELSE [files |-> WithFile(fs, file_path, env.size), tree |-> made,
             result |-> Some(file_path), gets |-> 1]

\* url.split('.').last(): the part after the last '.', the whole string when
\* there is none.
UrlExtension(url) == SubSeq(url, LastDot(url) + 1, Len(url))

\* Downloader::download_from_giphy
DownloadFromGiphy(fs, tree, url, giphy_id, env) ==
    Download(fs, tree, url,
             <<"g", "i", "p", "h", "y", "_">> \o giphy_id \o <<".">>
                 \o UrlExtension(url),
             "gif", env)

\* Downloader::download_from_klipy (download_from_provider): the primary
\* asset and, when a secondary URL is given, the secondary rendition, both
\* named after the provider item id. result is Option<(path, Option<path>)>.
DownloadFromKlipy(fs, tree, gif_url, mp4_url, klipy_id, env1, env2) ==
    LET stem == <<"k", "l", "i", "p", "y", "_">> \o klipy_id
        d1 == Download(fs, tree, gif_url, stem \o <<".", "g", "i", "f">>,
                       "gif", env1)
        d2 == Download(d1.files, d1.tree, Unwrap(mp4_url),
                       stem \o <<".", "m", "p", "4">>, "video", env2)
    IN IF ~IsSome(d1.result) THEN d1
       ELSE IF ~IsSome(mp4_url)
       THEN [files |-> d1.files, tree |-> d1.tree,
             result |-> Some(<<Unwrap(d1.result), None>>), gets |-> d1.gets]
       ELSE IF ~IsSome(d2.result)
       THEN [files |-> d2.files, tree |-> d2.tree, result |-> None,
             gets |-> d1.gets + d2.gets]
       ELSE [files |-> d2.files, tree |-> d2.tree,
             result |-> Some(<<Unwrap(d1.result), d2.result>>),
             gets |-> d1.gets + d2.gets]

\* Downloader::import_local_file: [files, tree, result]; env.copy_ok is
\* whether fs::copy succeeds on an existing source.
ImportFile(fs, tree, source_path, env) ==
    LET made == EnsureDirectories(tree, env.mkdir_ok)
        filename == FileName(source_path)
        media_type ==
            MediaTypeOfExtension(ToLowercase(Extension(source_path[3])))
        dest_path == <<MediaRoot, Subdir(media_type), Unwrap(filename)>>
    IN IF ~made \/ ~IsSome(filename)
       THEN [files |-> fs, tree |-> made, result |-> None]
       ELSE IF source_path \notin DOMAIN fs \/ ~env.copy_ok
       THEN [files |-> fs, tree |-> made, result |-> None]
       ELSE [files |-> WithFile(fs, dest_path, fs[source_path]), tree |-> made,
             result |-> Some(dest_path)]

\* Downloader::get_file_size(..).ok()
GetFileSize(fs, path) == IF path \in DOMAIN fs THEN Some(fs[path]) ELSE None

\* Downloader::delete_file: fs::remove_file fails on a missing file and may
\* fail on an existing one. [files, ok]
DeleteFile(fs, path, remove_ok) ==
    IF path \in DOMAIN fs /\ remove_ok
    THEN [files |-> WithoutFile(fs, path), ok |-> TRUE]
    ELSE [files |-> fs, ok |-> FALSE]

----------------------------------------------------------------------------
(* Inputs *)

NameCat == <<"c", ".", "g", "i", "f">>
NamePng == <<"d", ".", "P", "N", "G">>
NameMissing == <<"x", ".", "m", "p", "4">>

\* Files of the user outside the managed tree. A file is told by its size:
\* the file of size 1 is a 2x3 image, no other file decodes as an image.
HomeFiles == (<<"home", "", NameCat>> :> 1) @@ (<<"home", "", NamePng>> :> 2)

\* image::open(path).dimensions() as Option
ImageDimensions(fs, path) ==
    IF path \in DOMAIN fs /\ fs[path] = 1 THEN Some(<<2, 3>>) ELSE None

ImportSources ==
    DOMAIN HomeFiles \cup {<<"home", "", NameMissing>>, <<"home", "", <<>>>>}

\* The step of import_local_file that fails, if any.
ImportEnvs ==
    {[mkdir_ok |-> o # "mkdir", copy_ok |-> o # "copy", insert_ok |-> o # "insert"] :
        o \in {"none", "mkdir", "copy", "insert"}}

\* A source that cannot be copied fails whatever else happens.
ImportScenarios ==
    {<<p, e>> \in ImportSources \X ImportEnvs :
        p \in DOMAIN HomeFiles \/ (e.mkdir_ok /\ e.copy_ok /\ e.insert_ok)}

BodySize == 3

DownloadEnvs ==
    {[out |-> o, size |-> IF o = "ok" THEN BodySize ELSE 0] : o \in DownloadOutcomes}

\* The outcomes that differ in what they leave behind.
FlowDownloadEnvs ==
    {e \in DownloadEnvs : e.out \in {"ok", "status_fail", "write_fail"}}

\* add_klipy_favorite: the secondary URL and what the environment does to
\* the primary download, the secondary download and the insert.
KlipyScenarios ==
    {<<None, e1, [out |-> "ok", size |-> BodySize], i>> :
        e1 \in FlowDownloadEnvs, i \in BOOLEAN}
    \cup {<<Some("m1"), e1, e2, i>> :
            e1 \in FlowDownloadEnvs, e2 \in FlowDownloadEnvs, i \in BOOLEAN}

KlipyId == <<"k">>

\* The steps of delete_favorite that fail: none, one, or the look-up and
\* the row delete.
DeleteEnvs ==
    {[lookup_ok |-> "lookup" \notin o, gif_ok |-> "gif" \notin o,
      mp4_ok |-> "mp4" \notin o, row_ok |-> "row" \notin o] :
        o \in {{}, {"lookup"}, {"gif"}, {"mp4"}, {"row"}, {"lookup", "row"}}}

\* Favorite records the GUI sends to add_favorite and update_favorite.
UnmanagedPath == <<"path", "to", <<"t", ".", "g", "i", "f">>>>

FavLocal == FavoriteNew(<<"t", ".", "g", "i", "f">>, Some(UnmanagedPath), "Gif", 0)

FavUrlOnly ==
    WithTags(WithSource(WithGifUrl(FavoriteNew(<<"u">>, None, "Gif", 1), "g1"),
                        "Giphy", Some(<<"9">>), Some("s1")),
             <<<<"c", "a", "t">>, <<"f">>>>)

FavBare == FavoriteNew(<<"b">>, None, "Image", 0)

FavFull ==
    [WithDimensions(WithSource(FavoriteNew(<<"v">>,
                                           Some(<<MediaRoot, "gifs", NameCat>>),
                                           "Video", 1),
                               "Klipy", Some(KlipyId), Some("s2")), 4, 5)
     EXCEPT !.id = Some(7),
            !.mp4_filepath = Some(<<MediaRoot, "videos", <<"v", ".", "m", "p", "4">>>>),
            !.custom_tags = <<<<"a", "\"", "b">>, <<"\\">>>>,
            !.description = Some(<<"d">>), !.file_size = Some(2),
            !.last_used = Some(1), !.use_count = 2]

FavoriteInputs == {FavLocal, FavUrlOnly, FavBare, FavFull}

\* What update_favorite may be called with: the record the GUI holds, as it
\* is or edited, or a record without an id.
UpdateInputs ==
    (IF IsSome(held)
     THEN {Unwrap(held),
           [Unwrap(held) EXCEPT !.custom_tags = <<<<"o", "k">>>>,
                                !.description = Some(<<"d">>)]}
     ELSE {})
    \cup {FavBare}

----------------------------------------------------------------------------
(* Favorites commands: commands/favorites.rs. Each command holds the       *)
(* AppState lock from its first statement to its return, so each is one    *)
(* step.                                                                   *)

Put(fn, k, v) == [x \in DOMAIN fn \cup {k} |-> IF x = k THEN v ELSE fn[x]]
Drop(fn, k) == [x \in DOMAIN fn \ {k} |-> fn[x]]

\* The local paths a favorite names.
PathsOf(f) ==
    (IF IsSome(f.filepath) THEN {Unwrap(f.filepath)} ELSE {})
    \cup (IF IsSome(f.mp4_filepath) THEN {Unwrap(f.mp4_filepath)} ELSE {})

\* ret: the command, whether it returned Ok, the id it was about, the step
\* that failed, and for delete_favorite whether the row was persisted
\* before, the paths its favorite named, and whether its filepath was
\* absent or named no existing file, and whether its look-up returned Ok.
NoRet ==
    [op |-> "none", ok |-> TRUE, id |-> 0, err |-> "none", persisted |-> FALSE,
     paths |-> {}, gone |-> FALSE, lookup_ok |-> TRUE]

\* MediaType of a lower-cased extension (import_local_file command).
MediaTypeEnumOfExtension(ext) ==
    CASE ext = <<"g", "i", "f">> -> "Gif"
      [] ext \in {<<"p", "n", "g">>, <<"j", "p", "g">>, <<"j", "p", "e", "g">>,
                  <<"w", "e", "b", "p">>} -> "Image"
      [] ext \in {<<"m", "p", "4">>, <<"w", "e", "b", "m">>, <<"m", "o", "v">>}
            -> "Video"
      [] OTHER -> "Gif"

\* A creating command stored f under id and returned it.
Stored(table, id, f, op) ==
    /\ rows' = table
    /\ issued' = Put(issued, id, [f EXCEPT !.id = Some(id)])
    /\ incCalls' = Put(incCalls, id, 0)
    /\ ret' = [NoRet EXCEPT !.op = op, !.id = id]

Failed(op, err) ==
    /\ ret' = [NoRet EXCEPT !.op = op, !.ok = FALSE, !.err = err]
    /\ UNCHANGED <<rows, issued, incCalls>>

AddFavorite(f, insert_ok, cap) ==
    /\ Cardinality(DOMAIN rows) < cap
    /\ LET c == Create(rows, f) IN
       IF insert_ok THEN Stored(c.table, c.id, f, "add_favorite")
       ELSE Failed("add_favorite", "insert")
    /\ UNCHANGED <<files, dirs, clock, held>>

UpdateFavorite(f, db_ok) ==
    /\ IF ~IsSome(f.id) THEN Failed("update_favorite", "missing_id")
       ELSE IF ~db_ok THEN Failed("update_favorite", "update")
       ELSE /\ rows' = Update(rows, f)
            /\ issued' = IF Unwrap(f.id) \in DOMAIN rows
                         THEN Put(issued, Unwrap(f.id), f) ELSE issued
            /\ ret' = [NoRet EXCEPT !.op = "update_favorite", !.id = Unwrap(f.id)]
            /\ UNCHANGED incCalls
    /\ held' = None
    /\ UNCHANGED <<files, dirs, clock>>

\* The GUI reads a favorite into its edit form, one at a time.
GetFavoriteById(id) ==
    /\ id \in DOMAIN rows
    /\ held = None
    /\ held' = GetById(rows, id, clock)
    /\ ret' = [NoRet EXCEPT !.op = "get_favorite_by_id", !.id = id]
    /\ UNCHANGED <<rows, files, dirs, clock, issued, incCalls>>

\* if let Some(path) = ... { if path.exists() { Downloader::delete_file } }
DeleteIfExists(fs, path, remove_ok) ==
    IF IsSome(path) /\ Unwrap(path) \in DOMAIN fs
    THEN DeleteFile(fs, Unwrap(path), remove_ok)
    ELSE [files |-> fs, ok |-> TRUE]

FilepathOf(found) == IF IsSome(found) THEN Unwrap(found).filepath ELSE None

Mp4FilepathOf(found) == IF IsSome(found) THEN Unwrap(found).mp4_filepath ELSE None

\* favorites_db.delete(id) once both file deletes are through (d2).
DeleteRowAfter(table, id, env, d2) ==
    IF ~d2.ok
    THEN [table |-> table, files |-> d2.files, ok |-> FALSE, err |-> "mp4"]
    ELSE IF ~env.row_ok
    THEN [table |-> table, files |-> d2.files, ok |-> FALSE, err |-> "row"]
    ELSE [table |-> Delete(table, id), files |-> d2.files, ok |-> TRUE,
          err |-> "none"]

\* The MP4 file after the GIF file (d1), each error returned at once.
DeleteMp4After(table, id, env, d1, mp4) ==
    IF ~d1.ok
    THEN [table |-> table, files |-> d1.files, ok |-> FALSE, err |-> "gif"]
    ELSE DeleteRowAfter(table, id, env, DeleteIfExists(d1.files, mp4, env.mp4_ok))

DeleteFound(table, fs, id, env, found) ==
    DeleteMp4After(table, id, env,
                   DeleteIfExists(fs, FilepathOf(found), env.gif_ok),
                   Mp4FilepathOf(found))

\* The row delete run whatever the file deletes returned.
DeleteRowIgnoring(table, id, env, d1, d2) ==
    IF ~env.row_ok
    THEN [table |-> table, files |-> d2.files, ok |-> FALSE, err |-> "row"]
    ELSE [table |-> Delete(table, id), files |-> d2.files, ok |-> d1.ok /\ d2.ok,
          err |-> IF ~d1.ok THEN "gif" ELSE IF ~d2.ok THEN "mp4" ELSE "none"]

DeleteMp4Ignoring(table, id, env, d1, mp4) ==
    DeleteRowIgnoring(table, id, env, d1,
                      DeleteIfExists(d1.files, mp4, env.mp4_ok))

\* delete_favorite with the errors of the file deletes dropped: the row
\* delete runs even if a file delete failed.
DeleteFoundIgnoring(table, fs, id, env, found) ==
    DeleteMp4Ignoring(table, id, env,
                      DeleteIfExists(fs, FilepathOf(found), env.gif_ok),
                      Mp4FilepathOf(found))

DeleteFavoriteIgnoringFileErrors(table, fs, id, now, env) ==
    DeleteFoundIgnoring(table, fs, id, env,
                        IF env.lookup_ok THEN GetById(table, id, now) ELSE None)

\* delete_favorite applied to the store and the file system:
\* [table, files, ok, err]. A failed look-up is skipped like an absent row
\* (if let Ok(Some(favorite))).
DeleteFavoriteFlow(table, fs, id, now, env) ==
    DeleteFound(table, fs, id, env,
                IF env.lookup_ok THEN GetById(table, id, now) ELSE None)

\* What delete_favorite(id) leaves behind, d the outcome of the flow.
DeleteFavoriteDone(id, d, lookup_ok) ==
    /\ rows' = d.table
    /\ files' = d.files
    /\ issued' = IF id \in DOMAIN d.table THEN issued ELSE Drop(issued, id)
    /\ incCalls' = IF id \in DOMAIN d.table THEN incCalls ELSE Drop(incCalls, id)
    /\ ret' = [NoRet EXCEPT
                 !.op = "delete_favorite", !.ok = d.ok, !.id = id, !.err = d.err,
                 !.lookup_ok = lookup_ok,
                 !.persisted = id \in DOMAIN rows,
                 !.paths = IF id \in DOMAIN rows
                           THEN PathsOf(FavoriteFromRow(rows[id], clock))
                                \cup PathsOf(issued[id])
                           ELSE {},
                 !.gone = id \in DOMAIN rows
                          /\ (rows[id].filepath = None
                              \/ Unwrap(rows[id].filepath) \notin DOMAIN files)]
    \* The GUI drops the record it holds when its favorite is deleted.
    /\ held' = IF id \in DOMAIN d.table \/ held = None
                   \/ Unwrap(held).id # Some(id)
                THEN held ELSE None
    /\ UNCHANGED <<dirs, clock>>

DeleteFavorite(id, env) ==
    DeleteFavoriteDone(id, DeleteFavoriteFlow(rows, files, id, clock, env),
                       env.lookup_ok)

IncrementUseCount(id, db_ok) ==
    /\ id \in DOMAIN rows => incCalls[id] < MaxIncCalls
    /\ IF db_ok
       THEN /\ rows' = IncrementUseCountSql(rows, id, clock)
            /\ incCalls' = IF id \in DOMAIN rows
                           THEN [incCalls EXCEPT ![id] = @ + 1] ELSE incCalls
            /\ ret' = [NoRet EXCEPT !.op = "increment_use_count", !.id = id]
            /\ UNCHANGED issued
       ELSE Failed("increment_use_count", "update")
    /\ UNCHANGED <<files, dirs, clock, held>>

ImportLocalFile(source_path, env, cap) ==
    /\ Cardinality(DOMAIN rows) < cap
    /\ LET imp == ImportFile(files, dirs, source_path, env)
           dest_path == Unwrap(imp.result)
           media_type ==
               MediaTypeEnumOfExtension(ToLowercase(Extension(source_path[3])))
           filename == Unwrap(FileName(dest_path))
           file_size == GetFileSize(imp.files, dest_path)
           dims == ImageDimensions(imp.files, dest_path)
           new == FavoriteNew(filename, Some(dest_path), media_type, clock)
           sized == IF IsSome(dims)
                    THEN WithDimensions(new, Unwrap(dims)[1], Unwrap(dims)[2])
                    ELSE new
           favorite == [sized EXCEPT !.file_size = file_size]
           c == Create(rows, favorite)
       IN /\ files' = imp.files
          /\ dirs' = imp.tree
          /\ IF ~IsSome(imp.result) THEN Failed("import_local_file", "import")
             ELSE IF ~env.insert_ok THEN Failed("import_local_file", "insert")
             ELSE Stored(c.table, c.id, favorite, "import_local_file")
    /\ UNCHANGED <<clock, held>>

AddKlipyFavorite(gif_url, mp4_url, source_id, source_url, title, width, height, env1, env2, insert_ok, cap) ==
    /\ Cardinality(DOMAIN rows) < cap
    /\ LET dl == DownloadFromKlipy(files, dirs, gif_url, mp4_url, source_id,
                                   env1, env2)
           gif_path == Unwrap(dl.result)[1]
           mp4_path == Unwrap(dl.result)[2]
           file_size == GetFileSize(dl.files, gif_path)
           built == WithSource(
                        WithDimensions(
                            WithGifUrl(FavoriteNew(title, Some(gif_path), "Gif", clock),
                                       gif_url),
                            width, height),
                        "Klipy", Some(source_id), Some(source_url))
           favorite == [built EXCEPT !.mp4_filepath = mp4_path,
                                     !.file_size = file_size]
           c == Create(rows, favorite)
       IN /\ files' = dl.files
          /\ dirs' = dl.tree
          /\ IF ~IsSome(dl.result) THEN Failed("add_klipy_favorite", "download")
             ELSE IF ~insert_ok THEN Failed("add_klipy_favorite", "insert")
             ELSE Stored(c.table, c.id, favorite, "add_klipy_favorite")
    /\ UNCHANGED <<clock, held>>

\* Time passes (Utc::now() read by the next command).
Tick ==
    /\ clock < MaxClock
    /\ clock' = clock + 1
    /\ ret' = NoRet
    /\ UNCHANGED <<rows, files, dirs, held, issued, incCalls>>

----------------------------------------------------------------------------
(* Specifications of the favorites commands *)

Versions == {1, 2, 3}

InitFav ==
    /\ rows = <<>>
    /\ files = HomeFiles
    /\ dirs = FALSE
    /\ clock = 0
    /\ ret = NoRet
    /\ held = None
    /\ issued = <<>>
    /\ incCalls = <<>>

InitConcIdle ==
    /\ pc = [p \in 1 .. NumTasks |-> "done"]
    /\ nowOf = [p \in 1 .. NumTasks |-> 0]
    /\ prior = 0

InitMig ==
    /\ migLog = {}
    /\ migTable = FALSE
    /\ schema = {}
    /\ mpc = [step |-> "idle", i |-> 0]
    /\ execCount = [v \in Versions |-> 0]
    /\ execOrder = <<>>
    /\ runs = 0
    /\ migRet = "none"
    /\ cleanRun = FALSE

InitDl ==
    /\ httpGets = 0
    /\ dlSeq = 0
    /\ dlRet = [op |-> "none", dest |-> None, result |-> None, gets |-> 0,
               out |-> "none"]
    /\ okSince = {}

NoHkRet == [op |-> "none", ok |-> TRUE, err |-> "none", hotkey |-> "", before |-> {}]

InitHkIdle ==
    /\ registered = {}
    /\ hkRet = NoHkRet

InitLockIdle ==
    /\ owner = 0
    /\ cpc = [t \in 1 .. NumInvocations |-> "idle"]
    /\ cmd = [t \in 1 .. NumInvocations |-> "none"]
    /\ left = [t \in 1 .. NumInvocations |-> 0]
    /\ touched = [t \in 1 .. NumInvocations |-> FALSE]

NoParseRet == [op |-> "none", ok |-> TRUE, value |-> "none", err |-> <<>>]

InitParseIdle ==
    /\ parseIn = <<>>
    /\ parseRet = NoParseRet

InitQry ==
    /\ asked = [op |-> "none", q |-> <<>>, fav |-> None, id |-> 0, had |-> FALSE,
                ok |-> TRUE, err |-> "none"]
    /\ hits = <<>>

\* setRet: the call, whether it returned Ok, the Settings a get returned,
\* the Settings a save was given, the keys stored before the call, and the
\* key and value update_key was given with the table it found.
NoSetRet ==
    [op |-> "none", ok |-> TRUE, value |-> None, arg |-> None, prev |-> {},
     key |-> "", val |-> <<>>, before |-> <<>>]

InitSet ==
    /\ settings = <<>>
    /\ setRet = NoSetRet
    /\ targetOs = "other"

Init ==
    /\ InitFav /\ InitConcIdle /\ InitMig /\ InitDl /\ InitQry /\ InitSet
    /\ InitHkIdle /\ InitLockIdle /\ InitParseIdle

StepImportLocalFile(cap) ==
    /\ \E sc \in ImportScenarios : ImportLocalFile(sc[1], sc[2], cap)
    /\ UNCHANGED <<concVars, migVars, dlVars, qryVars, setVars, hkVars, lockVars, parseVars>>

StepAddKlipyFavorite(cap) ==
    /\ \E sc \in KlipyScenarios :
          AddKlipyFavorite("g1", sc[1], KlipyId, "s1", <<"t">>, 4, 5,
                           sc[2], sc[3], sc[4], cap)
    /\ UNCHANGED <<concVars, migVars, dlVars, qryVars, setVars, hkVars, lockVars, parseVars>>

StepDeleteFavorite(cap) ==
    /\ \E id \in 1 .. (cap + 1), env \in DeleteEnvs : DeleteFavorite(id, env)
    /\ UNCHANGED <<concVars, migVars, dlVars, qryVars, setVars, hkVars, lockVars, parseVars>>

StepIncrementUseCount(cap) ==
    /\ \E id \in 1 .. (cap + 1), db_ok \in BOOLEAN : IncrementUseCount(id, db_ok)
    /\ UNCHANGED <<concVars, migVars, dlVars, qryVars, setVars, hkVars, lockVars, parseVars>>

StepAddFavorite(cap) ==
    /\ \E f \in FavoriteInputs, insert_ok \in BOOLEAN : AddFavorite(f, insert_ok, cap)
    /\ UNCHANGED <<concVars, migVars, dlVars, qryVars, setVars, hkVars, lockVars, parseVars>>

StepUpdateFavorite ==
    /\ \E f \in UpdateInputs, db_ok \in BOOLEAN : UpdateFavorite(f, db_ok)
    /\ UNCHANGED <<concVars, migVars, dlVars, qryVars, setVars, hkVars, lockVars, parseVars>>

StepGetFavoriteById ==
    /\ \E id \in DOMAIN rows : GetFavoriteById(id)
    /\ UNCHANGED <<concVars, migVars, dlVars, qryVars, setVars, hkVars, lockVars, parseVars>>

StepTick ==
    /\ Tick
    /\ UNCHANGED <<concVars, migVars, dlVars, qryVars, setVars, hkVars, lockVars, parseVars>>

\* The store through its commands: add, read, update, use, delete.
Next ==
    \/ StepAddFavorite(StoreRows)
    \/ StepUpdateFavorite
    \/ StepGetFavoriteById
    \/ StepIncrementUseCount(StoreRows)
    \/ StepDeleteFavorite(StoreRows)

Spec == Init /\ [][Next]_vars

\* The three orchestration flows.
NextFlows ==
    \/ StepImportLocalFile(FlowRows)
    \/ StepAddKlipyFavorite(FlowRows)
    \/ StepDeleteFavorite(FlowRows)

SpecFlows == Init /\ [][NextFlows]_vars

\* Imported favorites and their deletion.
NextDelete ==
    \/ StepImportLocalFile(DelRows)
    \/ StepDeleteFavorite(DelRows)

SpecDelete == Init /\ [][NextDelete]_vars

\* Favorites built by Favorite::new and used: no update, no delete.
NextUse ==
    \/ StepImportLocalFile(UseRows)
    \/ StepIncrementUseCount(UseRows)
    \/ StepTick

SpecUse == Init /\ [][NextUse]_vars

----------------------------------------------------------------------------
(* Concurrent increment_use_count against the store, no AppState lock:     *)
(* each invocation reads Utc::now(), then awaits its one UPDATE statement. *)

\* A store holding one favorite built by Favorite::new and used n times.
RECURSIVE UsedStore(_)
UsedStore(n) ==
    IF n = 0
    THEN Create(<<>>, FavoriteNew(NameCat, None, "Gif", 0)).table
    ELSE IncrementUseCountSql(UsedStore(n - 1), 1, 0)

InitConc ==
    /\ prior \in 0 .. MaxPrior
    /\ rows = UsedStore(prior)
    /\ files = HomeFiles
    /\ dirs = FALSE
    /\ clock = 0
    /\ ret = NoRet
    /\ held = None
    /\ issued = <<>>
    /\ incCalls = <<>>
    /\ pc = [p \in 1 .. NumTasks |-> "start"]
    /\ nowOf = [p \in 1 .. NumTasks |-> 0]
    /\ InitQry
    /\ InitSet
    /\ InitHkIdle /\ InitLockIdle /\ InitParseIdle
    /\ InitMig
    /\ InitDl

\* let now = Utc::now().to_rfc3339();
TaskBindNow(p) ==
    /\ pc[p] = "start"
    /\ nowOf' = [nowOf EXCEPT ![p] = clock]
    /\ pc' = [pc EXCEPT ![p] = "bound"]
    /\ UNCHANGED <<favVars, prior, migVars, dlVars, qryVars, setVars, hkVars, lockVars, parseVars>>

\* sqlx::query("UPDATE favorites SET use_count = use_count + 1, ...")
\*     .execute(self.pool).await: one statement, or an error and no change.
TaskExecute(p, db_ok) ==
    /\ pc[p] = "bound"
    /\ rows' = IF db_ok THEN IncrementUseCountSql(rows, 1, nowOf[p]) ELSE rows
    /\ pc' = [pc EXCEPT ![p] = IF db_ok THEN "done" ELSE "failed"]
    /\ UNCHANGED <<files, dirs, clock, ret, held, issued, incCalls, nowOf, prior>>
    /\ UNCHANGED <<migVars, dlVars, qryVars, setVars, hkVars, lockVars, parseVars>>

NextConc ==
    \/ \E p \in 1 .. NumTasks : TaskBindNow(p)
    \/ \E p \in 1 .. NumTasks, db_ok \in BOOLEAN : TaskExecute(p, db_ok)
    \/ StepTick

SpecConc == InitConc /\ [][NextConc]_vars

----------------------------------------------------------------------------
(* Database::run_migrations, statement by statement. migLog is the set of  *)
(* versions in _migrations, schema the set of versions whose statement has *)
(* taken effect, execCount and execOrder the statements executed.          *)

\* The error contexts of run_migrations.
MigErrors == {"table_failed", "check_failed", "run_failed", "record_failed"}

\* After migration i: the next one, or Ok(()).
MigAdvance(i) ==
    IF i + 1 \in Versions
    THEN /\ mpc' = [step |-> "check", i |-> i + 1]
         /\ migRet' = migRet
    ELSE /\ mpc' = [step |-> "idle", i |-> 0]
         /\ migRet' = "ok"

MigFail(err) ==
    /\ mpc' = [step |-> "idle", i |-> 0]
    /\ migRet' = err

\* CREATE TABLE IF NOT EXISTS _migrations; cleanRun: every version was
\* already logged when the call began.
MigStart(ok) ==
    /\ mpc.step = "idle"
    /\ runs < MaxRuns
    /\ runs' = runs + 1
    /\ cleanRun' = (migLog = Versions)
    /\ IF ok
       THEN /\ migTable' = TRUE
            /\ mpc' = [step |-> "check", i |-> 1]
            /\ migRet' = "running"
       ELSE /\ migTable' = migTable
            /\ MigFail("table_failed")
    /\ UNCHANGED <<migLog, schema, execCount, execOrder>>
    /\ UNCHANGED <<favVars, concVars, dlVars, qryVars, setVars, hkVars, lockVars, parseVars>>

\* SELECT version FROM _migrations WHERE version = ?
MigCheck(ok) ==
    /\ mpc.step = "check"
    /\ IF ~ok THEN MigFail("check_failed")
       ELSE IF mpc.i \in migLog THEN MigAdvance(mpc.i)
       ELSE /\ mpc' = [mpc EXCEPT !.step = "run"]
            /\ migRet' = migRet
    /\ UNCHANGED <<migLog, migTable, schema, execCount, execOrder, runs, cleanRun>>
    /\ UNCHANGED <<favVars, concVars, dlVars, qryVars, setVars, hkVars, lockVars, parseVars>>

\* sqlx::query(sql).execute(&self.pool)
MigRun(ok) ==
    /\ mpc.step = "run"
    /\ IF ok
       THEN /\ schema' = schema \cup {mpc.i}
            /\ execCount' = [execCount EXCEPT ![mpc.i] = @ + 1]
            /\ execOrder' = Append(execOrder, mpc.i)
            /\ mpc' = [mpc EXCEPT !.step = "record"]
            /\ migRet' = migRet
       ELSE /\ MigFail("run_failed")
            /\ UNCHANGED <<schema, execCount, execOrder>>
    /\ UNCHANGED <<migLog, migTable, runs, cleanRun>>
    /\ UNCHANGED <<favVars, concVars, dlVars, qryVars, setVars, hkVars, lockVars, parseVars>>

\* INSERT INTO _migrations (version, name, applied_at) VALUES (?, ?, ...)
MigRecord(ok) ==
    /\ mpc.step = "record"
    /\ IF ok
       THEN /\ migLog' = migLog \cup {mpc.i}
            /\ MigAdvance(mpc.i)
       ELSE /\ migLog' = migLog
            /\ MigFail("record_failed")
    /\ UNCHANGED <<migTable, schema, execCount, execOrder, runs, cleanRun>>
    /\ UNCHANGED <<favVars, concVars, dlVars, qryVars, setVars, hkVars, lockVars, parseVars>>

NextMig ==
    \/ \E ok \in BOOLEAN : MigStart(ok)
    \/ \E ok \in BOOLEAN : MigCheck(ok)
    \/ \E ok \in BOOLEAN : MigRun(ok)
    \/ \E ok \in BOOLEAN : MigRecord(ok)

SpecMig == Init /\ [][NextMig]_vars

----------------------------------------------------------------------------
(* The downloader on its own: download, download_from_giphy, delete_file.  *)
(* httpGets counts the GET requests sent, okSince holds the destinations   *)
(* a download returned Ok for and that were not deleted since, dlRet the   *)
(* operation, destination, result and requests of the last call and what  *)
(* the environment did to it.                                              *)

\* let file_path = self.media_dir.join(subdir).join(filename);
Destination(filename, media_type) == <<MediaRoot, Subdir(media_type), filename>>

GiphyId == <<"x">>

GiphyUrl == <<"u", ".", "g", "i", "f">>

\* format!("giphy_{}.{}", giphy_id, extension)
GiphyFilename(url, giphy_id) ==
    <<"g", "i", "p", "h", "y", "_">> \o giphy_id \o <<".">> \o UrlExtension(url)

DlFilenames == {NameCat, GiphyFilename(GiphyUrl, GiphyId)}

DlMediaTypes == {"gif", "video"}

DlDestinations ==
    {Destination(filename, media_type) :
        filename \in DlFilenames, media_type \in DlMediaTypes}

DlRecord(op, dest, out, d) ==
    /\ files' = d.files
    /\ dirs' = d.tree
    /\ httpGets' = httpGets + d.gets
    /\ dlSeq' = dlSeq + 1
    /\ dlRet' = [op |-> op, dest |-> Some(dest), result |-> d.result,
                 gets |-> d.gets, out |-> out]
    /\ okSince' = IF IsSome(d.result) THEN okSince \cup {Unwrap(d.result)}
                  ELSE okSince
    /\ UNCHANGED <<rows, clock, ret, held, issued, incCalls>>
    /\ UNCHANGED <<concVars, migVars, qryVars, setVars, hkVars, lockVars, parseVars>>

DlDownload(url, filename, media_type, env) ==
    /\ dlSeq < MaxDlCalls
    /\ DlRecord("download", Destination(filename, media_type), env.out,
                Download(files, dirs, url, filename, media_type, env))

DlDownloadFromGiphy(url, giphy_id, env) ==
    /\ dlSeq < MaxDlCalls
    /\ DlRecord("download_from_giphy",
                Destination(GiphyFilename(url, giphy_id), "gif"), env.out,
                DownloadFromGiphy(files, dirs, url, giphy_id, env))

DlDeleteFile(path, remove_ok) ==
    LET d == DeleteFile(files, path, remove_ok) IN
    /\ path \in DOMAIN files
    /\ files' = d.files
    /\ okSince' = IF d.ok THEN okSince \ {path} ELSE okSince
    /\ dlRet' = [op |-> "delete_file", dest |-> None, result |-> None, gets |-> 0,
                out |-> "none"]
    /\ UNCHANGED <<rows, dirs, clock, ret, held, issued, incCalls, httpGets, dlSeq>>
    /\ UNCHANGED <<concVars, migVars, qryVars, setVars, hkVars, lockVars, parseVars>>

NextDl ==
    \/ \E url \in {"u1", "u2"}, filename \in DlFilenames,
         media_type \in DlMediaTypes, env \in DownloadEnvs :
           DlDownload(url, filename, media_type, env)
    \/ \E env \in DownloadEnvs : DlDownloadFromGiphy(GiphyUrl, GiphyId, env)
    \/ \E path \in DlDestinations, remove_ok \in BOOLEAN :
           DlDeleteFile(path, remove_ok)

SpecDl == Init /\ [][NextDl]_vars

----------------------------------------------------------------------------
(* The store queries search and get_all over a store filled by create.     *)
(* asked is the last query, hits what it returned; a create forgets both.  *)

\* Favorites that differ in where the text "ca" stands, in use_count and in
\* created_at.
SearchFavName ==
    [FavoriteNew(<<"c", "a", "t">>, None, "Gif", 1) EXCEPT !.tags = <<<<"f">>>>]

SearchFavTag ==
    [FavoriteNew(<<"d">>, None, "Gif", 0)
     EXCEPT !.custom_tags = <<<<"C", "a">>, <<"g">>>>, !.use_count = 1]

SearchFavDescription ==
    [FavoriteNew(<<"e">>, None, "Gif", 1)
     EXCEPT !.description = Some(<<"a", " ", "c", "A">>), !.use_count = 1]

SearchFavOther == FavoriteNew(<<"h">>, None, "Gif", 0)

SearchInputs == {SearchFavName, SearchFavTag, SearchFavDescription, SearchFavOther}

SearchQueries ==
    {<<>>, <<"c", "a">>, <<"C", "A">>, <<"z">>, <<"[">>, <<"\"">>, <<"%">>, <<"_">>}

\* asked: the call, its query text, favorite or id, whether a row of that
\* id was there before the call, and whether and how the call failed.
NoQuery ==
    [op |-> "none", q |-> <<>>, fav |-> None, id |-> 0, had |-> FALSE,
     ok |-> TRUE, err |-> "none"]

StoreCreate(f, cap) ==
    /\ NewRowid(rows) <= cap
    /\ rows' = Create(rows, f).table
    /\ asked' = [NoQuery EXCEPT !.op = "create", !.id = Create(rows, f).id]
    /\ hits' = <<>>
    /\ UNCHANGED <<files, dirs, clock, ret, held, issued, incCalls>>
    /\ UNCHANGED <<concVars, migVars, dlVars, setVars, hkVars, lockVars, parseVars>>

StoreSearch(query) ==
    /\ hits' \in Search(rows, query, clock)
    /\ asked' = [NoQuery EXCEPT !.op = "search", !.q = query]
    /\ UNCHANGED <<favVars, concVars, migVars, dlVars, setVars, hkVars, lockVars, parseVars>>

StoreGetAll ==
    /\ hits' \in GetAll(rows, clock)
    /\ asked' = [NoQuery EXCEPT !.op = "get_all"]
    /\ UNCHANGED <<favVars, concVars, migVars, dlVars, setVars, hkVars, lockVars, parseVars>>

NextSearch ==
    \/ \E f \in SearchInputs : StoreCreate(f, SearchRows)
    \/ \E query \in SearchQueries : StoreSearch(query)
    \/ StoreGetAll

SpecSearch == Init /\ [][NextSearch]_vars

----------------------------------------------------------------------------
(* The store calls create, update, delete and get_by_id on their own.      *)

\* What update is called with: a full record or a bare one, without an id
\* or with an id the store can hold or one it never holds.
StoreUpdateInputs ==
    {[f EXCEPT !.id = i] :
        f \in {FavFull, FavBare},
        i \in {None} \cup {Some(id) : id \in 1 .. (StoreIds + 1)}}

StoreUpdate(f, db_ok) ==
    /\ rows' = UpdateResult(rows, f, db_ok).table
    /\ asked' = [NoQuery EXCEPT !.op = "update", !.fav = Some(f),
                                !.had = IsSome(f.id) /\ Unwrap(f.id) \in DOMAIN rows,
                                !.ok = UpdateResult(rows, f, db_ok).ok,
                                !.err = UpdateResult(rows, f, db_ok).err]
    /\ hits' = <<>>
    /\ UNCHANGED <<files, dirs, clock, ret, held, issued, incCalls>>
    /\ UNCHANGED <<concVars, migVars, dlVars, setVars, hkVars, lockVars, parseVars>>

StoreDelete(id, db_ok) ==
    /\ rows' = DeleteResult(rows, id, db_ok).table
    /\ asked' = [NoQuery EXCEPT !.op = "delete", !.id = id,
                                !.had = id \in DOMAIN rows,
                                !.ok = DeleteResult(rows, id, db_ok).ok,
                                !.err = DeleteResult(rows, id, db_ok).err]
    /\ hits' = <<>>
    /\ UNCHANGED <<files, dirs, clock, ret, held, issued, incCalls>>
    /\ UNCHANGED <<concVars, migVars, dlVars, setVars, hkVars, lockVars, parseVars>>

\* increment_use_count: one UPDATE, or an error and no change.
StoreIncrement(id, db_ok) ==
    /\ id \in DOMAIN rows => rows[id].use_count < StoreUses
    /\ rows' = IF db_ok THEN IncrementUseCountSql(rows, id, clock) ELSE rows
    /\ asked' = [NoQuery EXCEPT !.op = "increment_use_count", !.id = id,
                                !.had = id \in DOMAIN rows, !.ok = db_ok,
                                !.err = IF db_ok THEN "none" ELSE "database"]
    /\ hits' = <<>>
    /\ UNCHANGED <<files, dirs, clock, ret, held, issued, incCalls>>
    /\ UNCHANGED <<concVars, migVars, dlVars, setVars, hkVars, lockVars, parseVars>>

\* get_by_id: hits holds the favorite found, or nothing.
StoreGetById(id) ==
    /\ hits' = GetById(rows, id, clock)
    /\ asked' = [NoQuery EXCEPT !.op = "get_by_id", !.id = id,
                                !.had = id \in DOMAIN rows]
    /\ UNCHANGED <<favVars, concVars, migVars, dlVars, setVars, hkVars, lockVars, parseVars>>

NextStore ==
    \/ \E f \in FavoriteInputs : StoreCreate(f, StoreIds)
    \/ \E f \in StoreUpdateInputs, db_ok \in BOOLEAN : StoreUpdate(f, db_ok)
    \/ \E id \in 1 .. (StoreIds + 1), db_ok \in BOOLEAN : StoreDelete(id, db_ok)
    \/ \E id \in 1 .. (StoreIds + 1), db_ok \in BOOLEAN : StoreIncrement(id, db_ok)
    \/ \E id \in 1 .. (StoreIds + 1) : StoreGetById(id)

SpecStore == Init /\ [][NextStore]_vars

----------------------------------------------------------------------------
(* The settings calls get, save and update_key of db/settings.rs.          *)

\* The Settings of test_save_and_get_settings.
SettingsTest(os) ==
    [SettingsDefault(os) EXCEPT !.giphy_api_key = Some(<<"k", "1">>),
                                !.window_width = 1024, !.theme = "Dark"]

\* Settings that differ from the defaults in every field but the absent
\* API key.
SettingsOther ==
    [giphy_api_key |-> None, hotkey |-> <<"\"", "\\", "G">>,
     window_width |-> 0 - 1, window_height |-> 0, max_item_width |-> 2147483647,
     close_after_selection |-> FALSE, launch_at_startup |-> TRUE,
     theme |-> "Light", clipboard_mode |-> "Url"]

SaveInputs(os) == {SettingsDefault(os), SettingsTest(os), SettingsOther}

\* The statement of save that fails: none, the DELETE, the fourth INSERT.
SaveFaults == {0, 1, 5}

\* What update_key is called with: decodable and undecodable values of
\* recognized keys and a key get does not know.
UpdateKeyInputs ==
    {<<"hotkey", <<"\"", "H", "\"">>>>,
     <<"window_width", <<"6", "4", "0">>>>,
     <<"window_height", <<"9", "9", "9", "9", "9", "9", "9", "9", "9", "9", "9">>>>,
     <<"theme", <<"\"", "d", "a", "r", "k", "\"">>>>,
     <<"theme", <<"\"", "D", "a", "r", "k", "\"">>>>,
     <<"giphy_api_key", <<"\"", "k", "\"">>>>,
     <<"volume", <<"1">>>>}

InitSettings ==
    /\ InitFav /\ InitConcIdle /\ InitMig /\ InitDl /\ InitQry
    /\ InitHkIdle /\ InitLockIdle /\ InitParseIdle
    /\ settings = <<>>
    /\ setRet = NoSetRet
    /\ targetOs \in {"macos", "other"}

SetGet ==
    /\ setRet' = [NoSetRet EXCEPT !.op = "get",
                                  !.value = Some(SettingsGet(settings, targetOs)),
                                  !.prev = DOMAIN settings]
    /\ UNCHANGED <<settings, targetOs>>
    /\ UNCHANGED <<favVars, concVars, migVars, dlVars, qryVars, hkVars, lockVars, parseVars>>

SetSave(st, fault) ==
    /\ st \in SaveInputs(targetOs)
    /\ settings' = SettingsSave(settings, st, fault).table
    /\ setRet' = [NoSetRet EXCEPT !.op = "save",
                                  !.ok = SettingsSave(settings, st, fault).ok,
                                  !.arg = Some(st), !.prev = DOMAIN settings,
                                  !.before = settings]
    /\ UNCHANGED targetOs
    /\ UNCHANGED <<favVars, concVars, migVars, dlVars, qryVars, hkVars, lockVars, parseVars>>

SetUpdateKey(key, value, db_ok) ==
    /\ settings' = SettingsUpdateKey(settings, key, value, db_ok).table
    /\ setRet' = [NoSetRet EXCEPT !.op = "update_key",
                                  !.ok = SettingsUpdateKey(settings, key, value, db_ok).ok,
                                  !.prev = DOMAIN settings,
                                  !.key = key, !.val = value,
                                  !.before = settings]
    /\ UNCHANGED targetOs
    /\ UNCHANGED <<favVars, concVars, migVars, dlVars, qryVars, hkVars, lockVars, parseVars>>

NextSettings ==
    \/ SetGet
    \/ \E st \in SaveInputs("macos") \cup SaveInputs("other"), fault \in SaveFaults :
          SetSave(st, fault)
    \/ \E kv \in UpdateKeyInputs, db_ok \in BOOLEAN : SetUpdateKey(kv[1], kv[2], db_ok)

SpecSettings == InitSettings /\ [][NextSettings]_vars

----------------------------------------------------------------------------
(* Global hotkey: commands/hotkey.rs. The shortcut plugin is the            *)
(* environment: whether a string parses as a shortcut is fixed per string, *)
(* whether a plugin call succeeds is chosen per call.                       *)

HotkeyInputs == {"Ctrl+G", "Alt+Space", "Ctrl+Shift+G", "Ctrl+", ""}

\* hotkey.parse::<Shortcut>()
ParsesAsShortcut(hotkey) == hotkey \in {"Ctrl+G", "Alt+Space", "Ctrl+Shift+G"}

\* unregister_all_hotkeys: app.global_shortcut().unregister_all()
UnregisterAll(reg, ok) ==
    IF ok THEN [reg |-> {}, ok |-> TRUE, err |-> "none"]
    ELSE [reg |-> reg, ok |-> FALSE, err |-> "unregister_all"]

\* register_hotkey after its `let _ = unregister_all_hotkeys(...)`: parse,
\* then on_shortcut.
RegisterParsed(cleared, hotkey, reg_ok) ==
    IF ~ParsesAsShortcut(hotkey)
    THEN [reg |-> cleared, ok |-> FALSE, err |-> "format"]
    ELSE IF ~reg_ok
    THEN [reg |-> cleared, ok |-> FALSE, err |-> "register"]
    ELSE [reg |-> cleared \cup {hotkey}, ok |-> TRUE, err |-> "none"]

RegisterHotkeyResult(reg, hotkey, unreg_ok, reg_ok) ==
    RegisterParsed(UnregisterAll(reg, unreg_ok).reg, hotkey, reg_ok)

\* unregister_hotkey
UnregisterHotkeyResult(reg, hotkey, ok) ==
    IF ~ParsesAsShortcut(hotkey)
    THEN [reg |-> reg, ok |-> FALSE, err |-> "format"]
    ELSE IF ~ok
    THEN [reg |-> reg, ok |-> FALSE, err |-> "unregister"]
    ELSE [reg |-> reg \ {hotkey}, ok |-> TRUE, err |-> "none"]

\* is_hotkey_registered: Ok(bool), the answer kept in err.
IsHotkeyRegisteredResult(reg, hotkey) ==
    IF ParsesAsShortcut(hotkey)
    THEN [reg |-> reg, ok |-> TRUE,
          err |-> IF hotkey \in reg THEN "true" ELSE "false"]
    ELSE [reg |-> reg, ok |-> FALSE, err |-> "format"]

HkDone(op, hotkey, r) ==
    /\ registered' = r.reg
    /\ hkRet' = [op |-> op, ok |-> r.ok, err |-> r.err, hotkey |-> hotkey,
                 before |-> registered]

RegisterHotkey(hotkey, unreg_ok, reg_ok) ==
    /\ HkDone("register_hotkey", hotkey,
              RegisterHotkeyResult(registered, hotkey, unreg_ok, reg_ok))
    /\ UNCHANGED <<favVars, concVars, migVars, dlVars, qryVars, setVars>>
    /\ UNCHANGED <<lockVars, parseVars>>

UnregisterHotkey(hotkey, ok) ==
    /\ HkDone("unregister_hotkey", hotkey,
              UnregisterHotkeyResult(registered, hotkey, ok))
    /\ UNCHANGED <<favVars, concVars, migVars, dlVars, qryVars, setVars>>
    /\ UNCHANGED <<lockVars, parseVars>>

UnregisterAllHotkeys(ok) ==
    /\ HkDone("unregister_all_hotkeys", "", UnregisterAll(registered, ok))
    /\ UNCHANGED <<favVars, concVars, migVars, dlVars, qryVars, setVars>>
    /\ UNCHANGED <<lockVars, parseVars>>

IsHotkeyRegistered(hotkey) ==
    /\ HkDone("is_hotkey_registered", hotkey,
              IsHotkeyRegisteredResult(registered, hotkey))
    /\ UNCHANGED <<favVars, concVars, migVars, dlVars, qryVars, setVars>>
    /\ UNCHANGED <<lockVars, parseVars>>

\* The shortcut of the stored settings may have been registered at start-up
\* (lib.rs: "Register initial hotkey from settings").
InitHotkey ==
    /\ InitFav /\ InitConcIdle /\ InitMig /\ InitDl /\ InitQry /\ InitSet
    /\ InitLockIdle /\ InitParseIdle
    /\ registered \in {{}, {"Ctrl+G"}}
    /\ hkRet = NoHkRet

NextHotkey ==
    \/ \E h \in HotkeyInputs, unreg_ok \in BOOLEAN, reg_ok \in BOOLEAN :
          RegisterHotkey(h, unreg_ok, reg_ok)
    \/ \E h \in HotkeyInputs, ok \in BOOLEAN : UnregisterHotkey(h, ok)
    \/ \E ok \in BOOLEAN : UnregisterAllHotkeys(ok)
    \/ \E h \in HotkeyInputs : IsHotkeyRegistered(h)

SpecHotkey == InitHotkey /\ [][NextHotkey]_vars

----------------------------------------------------------------------------
(* The AppState mutex: lib.rs builds one Arc<Mutex<AppState>>; a command    *)
(* that takes the state begins with `let state = state.lock().await;` and  *)
(* the guard lives until the function returns.                             *)

Commands == {"delete_favorite", "import_local_file", "get_settings",
             "read_file_as_data_url"}

\* The store and downloader operations a command performs at most:
\* delete_favorite looks the row up, deletes two files and the row;
\* import_local_file imports the file and creates the row; get_settings
\* reads the settings; read_file_as_data_url (commands/files.rs) takes no
\* state and calls neither store nor downloader.
CommandOps(c) ==
    CASE c = "delete_favorite" -> 4
      [] c = "import_local_file" -> 2
      [] c = "get_settings" -> 1
      [] c = "read_file_as_data_url" -> 0

LocksStateNever(c) == FALSE

\* Whether the command's first statement is state.lock().await.
LocksState(c) == c \in {"delete_favorite", "import_local_file", "get_settings"}

\* Dropping the guard: the mutex is free again if t held it.
Released(o, t) == IF o = t THEN 0 ELSE o

\* The front end invokes a command.
CmdInvoke(t, c) ==
    /\ cpc[t] = "idle"
    /\ cmd' = [cmd EXCEPT ![t] = c]
    /\ left' = [left EXCEPT ![t] = CommandOps(c)]
    /\ cpc' = [cpc EXCEPT ![t] = IF LocksState(c) THEN "waiting" ELSE "running"]
    /\ UNCHANGED <<owner, touched>>
    /\ UNCHANGED <<favVars, concVars, migVars, dlVars, qryVars, setVars>>
    /\ UNCHANGED <<hkVars, parseVars>>

\* state.lock().await completes once the mutex is free.
CmdLock(t) ==
    /\ cpc[t] = "waiting"
    /\ owner = 0
    /\ owner' = t
    /\ cpc' = [cpc EXCEPT ![t] = "running"]
    /\ UNCHANGED <<cmd, left, touched>>
    /\ UNCHANGED <<favVars, concVars, migVars, dlVars, qryVars, setVars>>
    /\ UNCHANGED <<hkVars, parseVars>>

\* Returning, with Ok or Err: the guard is dropped.
CmdLeave(t) ==
    /\ cpc' = [cpc EXCEPT ![t] = "idle"]
    /\ cmd' = [cmd EXCEPT ![t] = "none"]
    /\ left' = [left EXCEPT ![t] = 0]
    /\ touched' = [touched EXCEPT ![t] = FALSE]
    /\ owner' = Released(owner, t)

\* One store or downloader operation (an await point); its failure is
\* returned at once by `?`.
CmdOp(t, ok) ==
    /\ cpc[t] = "running"
    /\ left[t] > 0
    /\ IF ok
       THEN /\ left' = [left EXCEPT ![t] = @ - 1]
            /\ touched' = [touched EXCEPT ![t] = TRUE]
            /\ UNCHANGED <<owner, cpc, cmd>>
       ELSE CmdLeave(t)
    /\ UNCHANGED <<favVars, concVars, migVars, dlVars, qryVars, setVars>>
    /\ UNCHANGED <<hkVars, parseVars>>

\* Ok(...) after the last operation.
CmdReturn(t) ==
    /\ cpc[t] = "running"
    /\ left[t] = 0
    /\ CmdLeave(t)
    /\ UNCHANGED <<favVars, concVars, migVars, dlVars, qryVars, setVars>>
    /\ UNCHANGED <<hkVars, parseVars>>

NextLock ==
    \/ \E t \in 1 .. NumInvocations, c \in Commands : CmdInvoke(t, c)
    \/ \E t \in 1 .. NumInvocations : CmdLock(t)
    \/ \E t \in 1 .. NumInvocations, ok \in BOOLEAN : CmdOp(t, ok)
    \/ \E t \in 1 .. NumInvocations : CmdReturn(t)

SpecLock == Init /\ [][NextLock]_vars

----------------------------------------------------------------------------
(* from_str of the two enums as a call: models/favorite.rs. The Err branch *)
(* carries format!("Unknown media type: {}", s), resp. "Unknown source".   *)

UnknownMediaType ==
    <<"U", "n", "k", "n", "o", "w", "n", " ", "m", "e", "d", "i", "a", " ", "t", "y", "p", "e", ":", " ">>

UnknownSource ==
    <<"U", "n", "k", "n", "o", "w", "n", " ", "s", "o", "u", "r", "c", "e", ":", " ">>

\* <MediaType as FromStr>::from_str with its error text.
MediaTypeParse(s) ==
    IF IsSome(MediaTypeFromStr(s))
    THEN [ok |-> TRUE, value |-> Unwrap(MediaTypeFromStr(s)), err |-> <<>>]
    ELSE [ok |-> FALSE, value |-> "none", err |-> UnknownMediaType \o s]

\* <Source as FromStr>::from_str with its error text.
SourceParse(s) ==
    IF IsSome(SourceFromStr(s))
    THEN [ok |-> TRUE, value |-> Unwrap(SourceFromStr(s)), err |-> <<>>]
    ELSE [ok |-> FALSE, value |-> "none", err |-> UnknownSource \o s]

UpperChar(c) ==
    IF \E i \in DOMAIN LowerChars : LowerChars[i] = c
    THEN UpperChars[CHOOSE i \in DOMAIN LowerChars : LowerChars[i] = c]
    ELSE c

\* Every spelling of s in upper and lower case letters.
CaseVariants(s) ==
    {[i \in DOMAIN s |-> IF i \in up THEN UpperChar(s[i]) ELSE s[i]] :
        up \in SUBSET DOMAIN s}

\* The strings parsed: every variant name in every letter case (as in
\* test_media_type_from_string), and strings that name no variant.
ParseInputs ==
    UNION {CaseVariants(MediaTypeToString(m)) : m \in MediaTypes}
    \cup UNION {CaseVariants(SourceToString(v)) : v \in Sources \cup {"Klipy"}}
    \cup {<<>>, <<"g", "i">>, <<"g", "i", "f", "s">>, <<" ", "g", "i", "f">>,
          <<"G", "1", "F">>, <<"m", "p", "4">>, <<"w", "e", "b">>}

ParseMediaType ==
    /\ parseRet' = [op |-> "media_type", ok |-> MediaTypeParse(parseIn).ok,
                    value |-> MediaTypeParse(parseIn).value,
                    err |-> MediaTypeParse(parseIn).err]
    /\ UNCHANGED parseIn
    /\ UNCHANGED <<favVars, concVars, migVars, dlVars, qryVars, setVars>>
    /\ UNCHANGED <<hkVars, lockVars>>

ParseSource ==
    /\ parseRet' = [op |-> "source", ok |-> SourceParse(parseIn).ok,
                    value |-> SourceParse(parseIn).value,
                    err |-> SourceParse(parseIn).err]
    /\ UNCHANGED parseIn
    /\ UNCHANGED <<favVars, concVars, migVars, dlVars, qryVars, setVars>>
    /\ UNCHANGED <<hkVars, lockVars>>

InitParse ==
    /\ InitFav /\ InitConcIdle /\ InitMig /\ InitDl /\ InitQry /\ InitSet
    /\ InitHkIdle /\ InitLockIdle
    /\ parseIn \in ParseInputs
    /\ parseRet = NoParseRet

NextParse ==
    \/ ParseMediaType
    \/ ParseSource

SpecParse == InitParse /\ [][NextParse]_vars

----------------------------------------------------------------------------
(* Claims about the favorites commands *)

\* C1: after any sequence of import_local_file, add_klipy_favorite and
\* delete_favorite, every persisted favorite still has the files that its
\* filepath and mp4_filepath named when it was created (they all existed
\* then): deleting one favorite removes no file of another.
C1FilesOfPersistedExist ==
    \A id \in DOMAIN rows : \A p \in PathsOf(issued[id]) : p \in DOMAIN files

\* C2: when delete_favorite(id) returns success for a persisted favorite,
\* the row is absent and no file exists at its filepath or mp4_filepath; and
\* it succeeds and removes the row when the filepath is absent or its file
\* is already gone (the row delete itself not failing).
C2DeleteRemovesRowAndFiles ==
    /\ (ret.op = "delete_favorite" /\ ret.ok /\ ret.persisted) =>
          /\ ret.id \notin DOMAIN rows
          /\ \A p \in ret.paths : p \notin DOMAIN files
    /\ (ret.op = "delete_favorite" /\ ret.gone /\ ret.err # "row") =>
          ret.ok /\ ret.id \notin DOMAIN rows

\* C3: if deleting a locally-owned file fails during delete_favorite(id),
\* delete_favorite returns an error and the row is still present.
C3FileDeleteFailureKeepsRow ==
    (ret.op = "delete_favorite" /\ ret.err \in {"gif", "mp4"}) =>
        ~ret.ok /\ ret.id \in DOMAIN rows

C3Witness ==
    /\ ret.op = "delete_favorite"
    /\ ret.err = "gif"
    /\ ret.persisted
    /\ ~ret.ok
    /\ ret.id \in DOMAIN rows

\* C4: create(f) returns an id > 0 and get_by_id(id) returns a record equal
\* to f on every field except id, which is Some(id).
C4CreateThenGetRoundTrip ==
    (ret.op = "add_favorite" /\ ret.ok) =>
        /\ ret.id > 0
        /\ GetById(rows, ret.id, clock) = Some(issued[ret.id])

\* C5: every persisted favorite has at least one of filepath, mp4_filepath
\* and gif_url present.
C5PersistedIsReferenceable ==
    \A id \in DOMAIN rows :
        LET f == FavoriteFromRow(rows[id], clock) IN
        IsSome(f.filepath) \/ IsSome(f.mp4_filepath) \/ IsSome(f.gif_url)

\* C7: a favorite built by Favorite::new and then only incremented N times
\* has use_count = N and, for N >= 1, a last_used; and last_used never moves
\* back from one call to the next.
C7CountsCalls ==
    \A id \in DOMAIN rows :
        LET f == FavoriteFromRow(rows[id], clock) IN
        /\ f.use_count = incCalls[id]
        /\ incCalls[id] >= 1 => IsSome(f.last_used)

C7LastUsedStep ==
    \A id \in DOMAIN rows \cap DOMAIN rows' :
        LET before == FavoriteFromRow(rows[id], clock).last_used
            after == FavoriteFromRow(rows'[id], clock').last_used
        IN IsSome(before) => (IsSome(after) /\ Unwrap(after) >= Unwrap(before))

\* C7: the count and the presence of last_used in every state, and
\* last_used never earlier than before across every step.
C7SequentialIncrements == [](C7CountsCalls) /\ [][C7LastUsedStep]_vars

C7Witness ==
    \E id \in DOMAIN rows :
        /\ incCalls[id] = 2
        /\ rows[id].use_count = 2
        /\ rows[id].last_used = Some(ToRfc3339(1))

\* C8: over any sequence of create, update and increment_use_count, the
\* stored use_count of a favorite never decreases.
C8UseCountNeverDecreases ==
    [][\A id \in DOMAIN rows \cap DOMAIN rows' :
           rows'[id].use_count >= rows[id].use_count]_vars

----------------------------------------------------------------------------
(* Claims about the store under concurrency, migrations and downloads *)

\* C6: once K concurrent increment_use_count invocations on the same id
\* have all completed, use_count is its prior value plus the number of
\* invocations whose statement was executed (K when none failed) and
\* last_used is the timestamp bound by one of them.
C6NoLostIncrement ==
    LET done == {p \in 1 .. NumTasks : pc[p] = "done"} IN
    (\A p \in 1 .. NumTasks : pc[p] \in {"done", "failed"}) =>
        /\ rows[1].use_count = prior + Cardinality(done)
        /\ done # {} =>
              rows[1].last_used \in {Some(ToRfc3339(nowOf[p])) : p \in done}

C6Witness ==
    /\ \A p \in 1 .. NumTasks : pc[p] = "done"
    /\ \E p, q \in 1 .. NumTasks : nowOf[p] # nowOf[q]
    /\ rows[1].use_count = prior + NumTasks

\* C9: run_migrations applies migrations 1, 2, 3 in ascending order; over
\* any number of calls each migration's statement is executed at most once;
\* a call on a fully migrated database executes no statement, leaves schema
\* and log alone, and returns success unless the log itself cannot be read.
C9MigrationsOnceInOrder ==
    /\ \A v \in Versions : execCount[v] <= 1
    /\ mpc.step = "run" => \A j \in Versions : j < mpc.i => j \in migLog
    /\ cleanRun => mpc.step \notin {"run", "record"}
    /\ (cleanRun /\ mpc.step = "idle") =>
          migRet \in {"ok", "table_failed", "check_failed"}

\* C10: once download has returned Ok for a destination and the file has
\* not been deleted since, a later download resolving to that destination
\* sends no HTTP request and returns the same path; no single call sends
\* more than one request, so the two calls together send at most one.
C10SecondDownloadIsLocal ==
    [][dlSeq' = dlSeq + 1 =>
          /\ httpGets' <= httpGets + 1
          /\ \A d \in okSince :
                dlRet'.dest = Some(d) =>
                    (httpGets' = httpGets /\ dlRet'.result = Some(d))]_vars

C10Witness ==
    /\ dlSeq >= 2
    /\ httpGets = 1
    /\ dlRet.gets = 0
    /\ IsSome(dlRet.result)
    /\ dlRet.result = dlRet.dest
    /\ Unwrap(dlRet.result) \in okSince
    /\ files[Unwrap(dlRet.result)] = BodySize

\* C11: when the destination does not exist and the request, the response
\* status or the body read fails, download returns an error after exactly
\* one GET and leaves no file at the destination; and any download to a
\* destination that does not exist sends one GET once the directories are
\* there, so the later call fetches again.
C11FailedRequestLeavesNoFile ==
    [][\A d \in DlDestinations :
          (dlSeq' = dlSeq + 1 /\ dlRet'.dest = Some(d) /\ d \notin DOMAIN files) =>
              /\ dlRet'.out \in {"send_fail", "status_fail", "body_fail"} =>
                    /\ dlRet'.result = None
                    /\ dlRet'.gets = 1
                    /\ d \notin DOMAIN files'
              /\ dlRet'.out # "mkdir_fail" => httpGets' = httpGets + 1]_vars

C11Witness ==
    /\ dlSeq >= 2
    /\ httpGets = 2
    /\ dlRet.out = "status_fail"
    /\ dlRet.gets = 1
    /\ dlRet.result = None
    /\ Unwrap(dlRet.dest) \notin DOMAIN files

\* C12: a download that fails while writing the body leaves a truncated
\* file at the destination, and every later download to a destination
\* holding a truncated file returns Ok with that path, sends no request and
\* leaves the file as it is.
C12TruncatedFileIsCacheHit ==
    [][\A d \in DlDestinations :
          (dlSeq' = dlSeq + 1 /\ dlRet'.dest = Some(d)) =>
              /\ (d \notin DOMAIN files /\ dlRet'.out = "write_fail") =>
                    /\ dlRet'.result = None
                    /\ d \in DOMAIN files'
                    /\ files'[d] < BodySize
              /\ (d \in DOMAIN files /\ files[d] < BodySize) =>
                    /\ dlRet'.result = Some(d)
                    /\ httpGets' = httpGets
                    /\ files' = files]_vars

C12Witness ==
    /\ dlSeq >= 2
    /\ httpGets = 1
    /\ dlRet.gets = 0
    /\ dlRet.result = dlRet.dest
    /\ IsSome(dlRet.result)
    /\ files[Unwrap(dlRet.result)] < BodySize

----------------------------------------------------------------------------
(* Claims about the store queries *)

\* q, compared without regard to case, is a substring of s.
ContainsIgnoreCase(s, q) ==
    \E i \in 0 .. Len(s) - Len(q) :
        ToLowercase(SubSeq(s, i + 1, i + Len(q))) = ToLowercase(q)

\* q is a substring of the filename, of an element of tags, of an element
\* of custom_tags or of the description of the favorite f.
FavoriteContains(f, q) ==
    \/ ContainsIgnoreCase(f.filename, q)
    \/ \E i \in DOMAIN f.tags : ContainsIgnoreCase(f.tags[i], q)
    \/ \E i \in DOMAIN f.custom_tags : ContainsIgnoreCase(f.custom_tags[i], q)
    \/ IsSome(f.description) /\ ContainsIgnoreCase(Unwrap(f.description), q)

IdsMatching(q) ==
    {id \in DOMAIN rows : FavoriteContains(FavoriteFromRow(rows[id], clock), q)}

\* C13: search(q) returns exactly the persisted favorites for which q,
\* compared case-insensitively, is a substring of the filename, of an
\* element of tags, of an element of custom_tags or of the description,
\* each once; no favorite is returned because q matches the punctuation of
\* the stored tag encoding or acts as a wildcard.
C13SearchIsSubstringMatch ==
    asked.op = "search" =>
        /\ {Unwrap(hits[i].id) : i \in DOMAIN hits} = IdsMatching(asked.q)
        /\ Len(hits) = Cardinality(IdsMatching(asked.q))

\* C14: search with the empty string as query, and search with a query
\* that is a substring of no field of any favorite, each return the empty
\* sequence, whatever the store contains.
C14EmptyOrUnmatchedQueryFindsNothing ==
    (asked.op = "search" /\ (asked.q = <<>> \/ IdsMatching(asked.q) = {})) =>
        hits = <<>>

\* C15: the sequence search returns is sorted by use_count descending and,
\* among favorites of equal use_count, by created_at descending; the
\* sequence get_all returns is sorted by created_at descending.
C15ResultsAreOrdered ==
    \A i, j \in DOMAIN hits :
        i < j =>
            /\ asked.op = "search" =>
                  \/ hits[i].use_count > hits[j].use_count
                  \/ /\ hits[i].use_count = hits[j].use_count
                     /\ hits[i].created_at >= hits[j].created_at
            /\ asked.op = "get_all" => hits[i].created_at >= hits[j].created_at

\* A search returned three favorites, the first by its higher use_count
\* although it is the oldest, the other two by their creation times.
C15Witness ==
    /\ asked.op = "search"
    /\ Len(hits) = 3
    /\ hits[1].use_count > hits[2].use_count
    /\ hits[1].created_at < hits[2].created_at
    /\ hits[2].use_count = hits[3].use_count
    /\ hits[2].created_at > hits[3].created_at

----------------------------------------------------------------------------
(* Claims about the store calls update and delete *)

\* C16: update(favorite) with favorite.id absent returns the missing
\* identity error and leaves every row of the store unchanged.
C16UpdateWithoutIdFails ==
    [][(asked'.op = "update" /\ ~IsSome(Unwrap(asked'.fav).id)) =>
           /\ ~asked'.ok
           /\ asked'.err = "missing_id"
           /\ rows' = rows]_vars

\* An update without an id was refused on a store that holds rows.
C16Witness ==
    /\ asked.op = "update"
    /\ ~IsSome(Unwrap(asked.fav).id)
    /\ asked.err = "missing_id"
    /\ Cardinality(DOMAIN rows) = StoreIds

\* What get_by_id returns for the row id after the step.
ReadBack(id) == Unwrap(GetById(rows', id, clock))

\* Every mutable field but mp4_filepath of the record read back is that of
\* the argument f.
ReplacedButMp4(id, f) ==
    /\ ReadBack(id).filename = f.filename
    /\ ReadBack(id).filepath = f.filepath
    /\ ReadBack(id).gif_url = f.gif_url
    /\ ReadBack(id).media_type = f.media_type
    /\ ReadBack(id).source = f.source
    /\ ReadBack(id).source_id = f.source_id
    /\ ReadBack(id).source_url = f.source_url
    /\ ReadBack(id).tags = f.tags
    /\ ReadBack(id).custom_tags = f.custom_tags
    /\ ReadBack(id).description = f.description
    /\ ReadBack(id).width = f.width
    /\ ReadBack(id).height = f.height
    /\ ReadBack(id).file_size = f.file_size
    /\ ReadBack(id).last_used = f.last_used
    /\ ReadBack(id).use_count = f.use_count

\* The row id keeps its id and created_at, every other row is as before.
UpdateFrame(id) ==
    /\ DOMAIN rows' = DOMAIN rows
    /\ rows'[id].id = id
    /\ rows'[id].created_at = rows[id].created_at
    /\ ReadBack(id).id = Some(id)
    /\ ReadBack(id).created_at = Unwrap(GetById(rows, id, clock)).created_at
    /\ \A other \in DOMAIN rows \ {id} : rows'[other] = rows[other]

\* C17: a successful update(favorite) with the id of an existing row
\* replaces every mutable field of that row (filename, filepath,
\* mp4_filepath, gif_url, media_type, the source fields, tags, custom_tags,
\* description, dimensions, file_size, last_used, use_count) with the values
\* of the argument, and leaves the row's id and created_at and every other
\* row unchanged, even when the argument carries a different created_at.
C17UpdateReplacesMutableFields ==
    [][(asked'.op = "update" /\ asked'.ok /\ asked'.had) =>
           /\ ReplacedButMp4(Unwrap(Unwrap(asked'.fav).id), Unwrap(asked'.fav))
           /\ ReadBack(Unwrap(Unwrap(asked'.fav).id)).mp4_filepath
                  = Unwrap(asked'.fav).mp4_filepath
           /\ UpdateFrame(Unwrap(Unwrap(asked'.fav).id))]_vars

\* C18: delete(id) returns success whether or not a row with that id was
\* there (the database call itself not failing); afterwards get_by_id(id)
\* returns None, and every row with a different id is unchanged.
C18DeleteIsIdempotent ==
    [][(asked'.op = "delete" /\ asked'.err # "database") =>
           /\ asked'.ok
           /\ GetById(rows', asked'.id, clock) = None
           /\ DOMAIN rows' = DOMAIN rows \ {asked'.id}
           /\ \A other \in DOMAIN rows' : rows'[other] = rows[other]]_vars

\* A delete of an id the store did not hold returned success and left the
\* rows the store holds.
C18Witness ==
    /\ asked.op = "delete"
    /\ asked.ok
    /\ ~asked.had
    /\ Cardinality(DOMAIN rows) = StoreIds

----------------------------------------------------------------------------
(* Claims about the settings *)

SettingsKeys ==
    {"giphy_api_key", "hotkey", "window_width", "window_height", "max_item_width",
     "close_after_selection", "launch_at_startup", "theme", "clipboard_mode"}

\* The value of one field: the decoded stored value when the key is stored
\* and its value decodes, the default otherwise.
Merged(key, decoded, default) ==
    IF key \in DOMAIN settings /\ IsSome(decoded) THEN Unwrap(decoded) ELSE default

StoredText(key) == IF key \in DOMAIN settings THEN settings[key] ELSE <<>>

\* The defaults with every decodable stored value of a recognized key laid
\* over them, field by field.
MergedSettings ==
    [giphy_api_key |->
         IF "giphy_api_key" \in DOMAIN settings
         THEN StringFromJson(settings["giphy_api_key"]) ELSE None,
     hotkey |-> Merged("hotkey", StringFromJson(StoredText("hotkey")),
                       SettingsDefault(targetOs).hotkey),
     window_width |-> Merged("window_width", I32FromJson(StoredText("window_width")), 800),
     window_height |-> Merged("window_height", I32FromJson(StoredText("window_height")), 600),
     max_item_width |-> Merged("max_item_width", I32FromJson(StoredText("max_item_width")), 400),
     close_after_selection |->
         Merged("close_after_selection", BoolFromJson(StoredText("close_after_selection")), TRUE),
     launch_at_startup |->
         Merged("launch_at_startup", BoolFromJson(StoredText("launch_at_startup")), FALSE),
     theme |-> Merged("theme", ThemeFromJson(StoredText("theme")), "System"),
     clipboard_mode |->
         Merged("clipboard_mode", ClipboardModeFromJson(StoredText("clipboard_mode")), "File")]

\* C19: get() never fails because of the stored content: with no stored
\* rows it returns the defaults (window_width 800, window_height 600, ...);
\* otherwise each recognized key whose stored value decodes overrides the
\* default of its field, each recognized key whose value fails to decode
\* leaves its field at the default, and unrecognized keys have no effect.
C19GetMergesOverDefaults ==
    setRet.op = "get" =>
        /\ setRet.ok
        /\ IsSome(setRet.value)
        /\ Unwrap(setRet.value) = MergedSettings
        /\ settings = <<>> =>
              /\ Unwrap(setRet.value) = SettingsDefault(targetOs)
              /\ Unwrap(setRet.value).window_width = 800
              /\ Unwrap(setRet.value).window_height = 600

\* A get over a decodable width, an undecodable height and theme, and an
\* unrecognized key returned the stored width and the default height and
\* theme.
C19Witness ==
    /\ setRet.op = "get"
    /\ DOMAIN settings = {"window_width", "window_height", "theme", "volume"}
    /\ settings["theme"] = <<"\"", "D", "a", "r", "k", "\"">>
    /\ Unwrap(setRet.value).window_width = 640
    /\ Unwrap(setRet.value).window_height = 600
    /\ Unwrap(setRet.value).theme = "System"

\* C20: after a successful save(s), get() returns a Settings equal to s on
\* every field (an absent giphy_api_key included), and the stored key set
\* is exactly the nine settings keys: no pair stored before the save,
\* recognized or not, survives it.
C20SaveThenGetRoundTrip ==
    (setRet.op = "save" /\ setRet.ok) =>
        /\ SettingsGet(settings, targetOs) = Unwrap(setRet.arg)
        /\ DOMAIN settings = SettingsKeys
        /\ \A i \in DOMAIN SavePairs(Unwrap(setRet.arg)) :
              settings[SavePairs(Unwrap(setRet.arg))[i][1]]
                  = SavePairs(Unwrap(setRet.arg))[i][2]

\* A save of settings without an API key succeeded over a table that held
\* an unrecognized key and an API key.
C20Witness ==
    /\ setRet.op = "save"
    /\ setRet.ok
    /\ {"volume", "giphy_api_key"} \subseteq setRet.prev
    /\ SettingsKeys \ setRet.prev # {}
    /\ Unwrap(setRet.arg) = SettingsOther

\* C21: after a successful update_key(k, v) the settings table holds the
\* row of key k with value v, whether or not a row for k was there before,
\* and every row of another key is unchanged; a following get() differs
\* from the preceding get() at most in the field named by k.
C21UpdateKeyIsUpsert ==
    (setRet.op = "update_key" /\ setRet.ok) =>
        /\ DOMAIN settings = DOMAIN setRet.before \cup {setRet.key}
        /\ settings[setRet.key] = setRet.val
        /\ \A k \in DOMAIN setRet.before \ {setRet.key} :
              settings[k] = setRet.before[k]
        /\ LET before == SettingsGet(setRet.before, targetOs)
               after == SettingsGet(settings, targetOs)
           IN \A field \in SettingsKeys \ {setRet.key} :
                  after[field] = before[field]

\* An update_key replaced the stored width while other keys, a recognized
\* and an unrecognized one, were stored.
C21Witness ==
    /\ setRet.op = "update_key"
    /\ setRet.ok
    /\ setRet.key = "window_width"
    /\ {"window_width", "theme", "volume"} \subseteq DOMAIN setRet.before
    /\ setRet.before["window_width"] # <<"6", "4", "0">>
    /\ settings["window_width"] = <<"6", "4", "0">>

----------------------------------------------------------------------------
(* Claims about failures inside the orchestration flows *)

\* C23: when a storage step (look-up, insert, row delete) or a download or
\* import step inside import_local_file, add_klipy_favorite or
\* delete_favorite fails, the flow returns an error and performs no later
\* step: no row is inserted after a failed import or download, and after a
\* failed look-up of a persisted favorite delete_favorite returns an error
\* and deletes neither a file nor the row.
C23FailedStepStopsFlow ==
    [][/\ (ret'.op = "delete_favorite" /\ ~ret'.lookup_ok /\ ret'.persisted) =>
              (~ret'.ok /\ rows' = rows /\ files' = files)
       /\ (ret'.op = "delete_favorite" /\ ret'.err \in {"gif", "mp4", "row"}) =>
              (~ret'.ok /\ rows' = rows)
       /\ ret'.err \in {"import", "download", "insert"} =>
              (~ret'.ok /\ rows' = rows)]_vars

----------------------------------------------------------------------------
(* Claims about the migration log *)

\* C28: whenever no run_migrations call is in progress, also after a call
\* that failed, the versions logged in _migrations are exactly the
\* migrations whose statement took effect; and a call that returned the
\* error of a failed statement has logged nothing the schema lacks.
C28LogMatchesSchema ==
    /\ mpc.step = "idle" => migLog = schema
    /\ migRet = "run_failed" => migLog \subseteq schema

----------------------------------------------------------------------------
(* Claims about the managed media tree after partial failures *)

\* The favorites as get_by_id returns them from the persisted rows.
PersistedFavorites == {FavoriteFromRow(rows[id], clock) : id \in DOMAIN rows}

\* C26: after any sequence of import_local_file, add_klipy_favorite and
\* delete_favorite, flows that failed partway included, every file below
\* the media root is named by the filepath or mp4_filepath of some
\* persisted favorite: the tree holds no orphan file.
C26NoOrphanFiles ==
    \A p \in DOMAIN files :
        p[1] = MediaRoot => \E f \in PersistedFavorites : p \in PathsOf(f)

\* C27: a delete_favorite(id) that returns an error has removed neither
\* the row nor any file: the row and every file its filepath or
\* mp4_filepath named before the call are still there.
C27FailedDeleteChangesNothing ==
    [][(ret'.op = "delete_favorite" /\ ~ret'.ok) =>
           (rows' = rows /\ files' = files)]_vars

----------------------------------------------------------------------------
(* Claims about the atomicity of a settings save *)

\* C29: a save is all or nothing: after a save(new) that failed, get()
\* returns either the complete settings stored before the call or the
\* complete new settings, never the defaults of an emptied table nor a
\* mixture of new values and defaults.
C29SaveIsAtomic ==
    (setRet.op = "save" /\ ~setRet.ok) =>
        SettingsGet(settings, targetOs)
            \in {SettingsGet(setRet.before, targetOs), Unwrap(setRet.arg)}

----------------------------------------------------------------------------
(* Claims about the global hotkey *)

\* C30: after a register_hotkey call at most one global shortcut is
\* registered, and a register_hotkey call that returns an error (the string
\* does not parse, or the registration fails) leaves the shortcuts that
\* were registered before the call registered.
C30RegisterKeepsOneShortcut ==
    [][hkRet'.op = "register_hotkey" =>
           /\ Cardinality(registered') <= 1
           /\ ~hkRet'.ok => registered' = registered]_vars

----------------------------------------------------------------------------
(* Claims about the AppState mutex *)

----------------------------------------------------------------------------
(* Claims about the text form of MediaType and Source *)

\* t occurs in s as a contiguous part.
IsInfix(t, s) ==
    \E i \in 0 .. (Len(s) - Len(t)) : SubSeq(s, i + 1, i + Len(t)) = t

SourceVariants == Sources \cup {"Klipy"}

----------------------------------------------------------------------------
(* Claims about the identity of persisted favorites *)

====
